---- MODULE Spec2Model ----
(***************************************************************************)
(* GateKeeper backend: the sync handlers (push / pull), the supervisor     *)
(* endpoints, the admin handlers and the role visibility filter, behind    *)
(* the authentication and role middleware, over the Firestore collections  *)
(* "users", "entries", "passwords" and "checkpoints"; the login and        *)
(* refresh handlers; and the per-address rate limiter.                     *)
(*                                                                         *)
(* Time values are naturals; 0 is Go's zero time.Time.  A request is       *)
(* issued on a connection (a slot); Push is a loop with one store write    *)
(* per entry, so it takes one step per entry; the read endpoints read the  *)
(* store once and are one step.  The admin and login handlers are also     *)
(* given one step per store call, for requests served at the same time.    *)
(***************************************************************************)
EXTENDS Integers, Sequences, FiniteSets, TLC

VARIABLES
    users,      \* Firestore collection "users":   user_id   -> User or NoUser
    entries,    \* Firestore collection "entries": record_id -> Entry or NoEntry
    passwords,  \* Firestore collection "passwords": user_id -> credential
    checkpoints, \* Firestore collection "checkpoints": id -> Checkpoint
    adminFaults, \* whether a store operation of an admin request has failed
    now,        \* the server's clock
    push,       \* per connection: the Push request being served (its locals)
    inflight,   \* per connection: the admin or login request being served
                \* one store operation at a time (its locals)
    request,    \* per connection: the request being served (route, header,
                \* and the body where a property speaks of it)
    resp,       \* per connection: the last response written
    watermark,  \* the delta-sync client's `since` for its next pull
    received,   \* the delta-sync client's copy: record_id -> Entry or NoEntry
    lastLogin,  \* the last_login field of the user documents
    issued,     \* the tokens the clients have been given by Login
    limiters,   \* RateLimiter.limiters: client identifier -> limiter
    tokens,     \* the limiter objects: the tokens left in each bucket
    mu,         \* RateLimiter.mu: the request (or the cleaner) holding it
    calls       \* per request passing the rate limiter: its position

\* The state of the rate limiter, and the state of the handlers behind it.
limiterVars == <<limiters, tokens, mu, calls>>

handlerVars == <<users, entries, passwords, checkpoints, adminFaults, now,
                 push, inflight, request, resp, watermark, received,
                 lastLogin, issued>>

vars == <<users, entries, passwords, checkpoints, adminFaults, now, push,
          inflight, request, resp, watermark, received, lastLogin, issued,
          limiterVars>>

---------------------------------------------------------------------------
(* Bounds *)

MaxBatch == 2       \* entries in one push request (authorization model)
MaxDeltaBatch == 1  \* entries in one push request (delta-sync model)
MaxTime == 1        \* greatest timestamp a client or the server clock takes
MaxConcBatch == 1
Requests == 1          \* cfg.RateLimit.Requests: the burst of a limiter   \* entries in one push request (concurrent model)

---------------------------------------------------------------------------
(* models: roles, statuses, records *)

RoleAdmin == "ADMIN"
RoleSupervisor == "SUPERVISOR"
RoleGateOperator == "GATE_OPERATOR"

StatusActive == "ACTIVE"
StatusDeleted == "DELETED"
EntryTypePersonnel == "PERSONNEL"

Admin == "user-admin"
SupJohn == "user-supervisor-john"
OpEast == "user-op-east"
OpWest == "user-op-west"
SupMary == "user-supervisor_mary"   \* a supervisor created without operators
OpNorth == "user-op_north"          \* an operator created without checkpoints
Guest == "user-guest"               \* a user created with an empty role
Gone == "user-gone"                 \* a deleted user whose token has not expired

UserIDs == {Admin, SupJohn, OpEast, OpWest, SupMary, OpNorth, Guest, Gone}

\* The document id CreateUser derives from the username "op_east", which
\* is not the id of the seeded user of that name.
OpEastDup == "user-op_east"

\* The document ids of the users and passwords collections.
DocIDs == UserIDs \cup {OpEastDup}

CpEast == "CP-EAST-MAIN"
CpWest == "CP-WEST-GATE"
CpNorth == "CP-NORTH-01"
Checkpoints == {CpEast, CpWest}

\* Document ids of the "entries" collection, in document-id order.
RecordIDs == <<"E1", "E2">>
RecordIDSet == {RecordIDs[i] : i \in 1..Len(RecordIDs)}

Times == 0..MaxTime

NoUser == [none |-> "user"]
NoEntry == [none |-> "entry"]

User(id, name, role, cps, sup, ops) ==
    [user_id |-> id, username |-> name, role |-> role,
     allowed_checkpoints |-> cps, supervisor_id |-> sup,
     managed_operators |-> ops]

Entry(rid, cp, author, created, updated, payload) ==
    [record_id |-> rid, checkpoint_id |-> cp, entry_type |-> EntryTypePersonnel,
     logging_user_id |-> author, client_ts |-> 0,
     updated_at |-> updated, created_at |-> created,
     status |-> StatusActive, payload |-> payload]

Range(s) == {s[i] : i \in 1..Len(s)}

---------------------------------------------------------------------------
(* The users collection at start: the seeded database (four users, the    *)
(* supervisor linked to op-east), and three users the admin created since  *)
(* through CreateUser, which stores the role and lists of the request.     *)

SeedUsers ==
    [u \in DocIDs |->
        CASE u = Admin   -> User(Admin, "admin", RoleAdmin, <<>>, "", <<>>)
          [] u = SupJohn -> User(SupJohn, "supervisor_john", RoleSupervisor,
                                 <<CpEast, CpNorth>>, "", <<OpEast>>)
          [] u = OpEast  -> User(OpEast, "op_east", RoleGateOperator,
                                 <<CpEast>>, SupJohn, <<>>)
          [] u = OpWest  -> User(OpWest, "op_west", RoleGateOperator,
                                 <<CpWest>>, "", <<>>)
          [] u = SupMary -> User(SupMary, "supervisor_mary", RoleSupervisor,
                                 <<>>, "", <<>>)
          [] u = OpNorth -> User(OpNorth, "op_north", RoleGateOperator,
                                 <<>>, "", <<>>)
          [] u = Guest   -> User(Guest, "guest", "", <<>>, "", <<>>)
          [] OTHER       -> NoUser]

---------------------------------------------------------------------------
(* db: the store operations *)

GetUser(uid) == users[uid]

\* Faulty variant of the write: the stored entry is kept when its
\* client_timestamp is later than the incoming one (logical order).
CreateEntryLatestClientTs(store, e) ==
    IF store[e.record_id] # NoEntry /\ store[e.record_id].client_ts > e.client_ts
    THEN store
    ELSE [store EXCEPT ![e.record_id] = e]

\* Faulty variant of the write: the document is added under a generated id
\* (the first unused one) instead of being set under its record_id.
CreateEntryAutoID(store, e) ==
    LET free == {r \in RecordIDSet : store[r] = NoEntry}
    IN  IF free = {} THEN store
        ELSE [store EXCEPT ![CHOOSE r \in free : TRUE] = e]

\* Faulty variant of the write: an entry marked DELETED removes the document.
CreateEntryHardDelete(store, e) ==
    [store EXCEPT ![e.record_id] =
        IF e.status = StatusDeleted THEN NoEntry ELSE e]

\* Faulty variant of the write: a document that exists is kept (create,
\* not set).
CreateEntryIfAbsent(store, e) ==
    IF store[e.record_id] # NoEntry THEN store
    ELSE [store EXCEPT ![e.record_id] = e]

CreateEntry(store, e) == [store EXCEPT ![e.record_id] = e]

\* The documents of a store in document-id order.
Documents(store) ==
    LET ids == SelectSeq(RecordIDs, LAMBDA r : store[r] # NoEntry)
    IN  [i \in 1..Len(ids) |-> store[ids[i]]]

GetAllEntries == Documents(entries)

RECURSIVE OrderByCreatedAt(_, _)
OrderByCreatedAt(docs, t) ==
    IF t > MaxTime THEN <<>>
    ELSE SelectSeq(docs, LAMBDA e : e.created_at = t)
            \o OrderByCreatedAt(docs, t + 1)

\* Where("created_at", ">", since): Firestore orders an inequality query by
\* the filtered field, then by document id.
GetEntriesSince(since) ==
    OrderByCreatedAt(
        SelectSeq(Documents(entries), LAMBDA e : e.created_at > since), 0)

---------------------------------------------------------------------------
(* middleware *)

\* A token: the claims the middleware reads, whether the signature verifies
\* under the server's key, and the expiry time.
Token(uid, signed, exp) ==
    [user_id |-> uid, signed |-> signed, expires_at |-> exp]

\* A token the server issued for uid that has not expired.
AccessToken(uid) == Token(uid, TRUE, MaxTime)

ValidateToken(tok) == tok.signed /\ now <= tok.expires_at

\* The Authorization header of a request: absent, not of the form
\* "Bearer <token>", or carrying a token.
NoHeader == [kind |-> "none"]
Malformed == [kind |-> "malformed"]
Bearer(tok) == [kind |-> "bearer", token |-> tok]

ExtractToken(hdr) == hdr.kind = "bearer"

\* Faulty variant of the middleware: the token's claims are used without
\* validating the token.
AuthenticateUnverified(hdr) ==
    IF hdr.kind = "none" THEN NoUser
    ELSE IF ~ExtractToken(hdr) THEN NoUser
    ELSE GetUser(hdr.token.user_id)

\* Faulty variant of the middleware: the user is taken from a cache filled
\* at start instead of being read from the store.
AuthenticateCached(hdr) ==
    IF hdr.kind = "none" THEN NoUser
    ELSE IF ~ExtractToken(hdr) THEN NoUser
    ELSE IF ~ValidateToken(hdr.token) THEN NoUser
    ELSE SeedUsers[hdr.token.user_id]

\* AuthMiddleware: the user as stored now for the claims of a valid token,
\* or NoUser (answered 401).
Authenticate(hdr) ==
    IF hdr.kind = "none" THEN NoUser
    ELSE IF ~ExtractToken(hdr) THEN NoUser
    ELSE IF ~ValidateToken(hdr.token) THEN NoUser
    ELSE GetUser(hdr.token.user_id)

\* Faulty variant of the role check: every authenticated user passes.
RequireRoleAnyUser(user, allowedRoles) == TRUE

RequireRole(user, allowedRoles) == user.role \in allowedRoles

---------------------------------------------------------------------------
(* handlers: the visibility filter *)

\* Faulty variants of the filter: an operator sees every entry; a supervisor
\* without operators sees every entry; an unknown role sees every entry.
filterOperatorSeesAll(es, user) ==
    IF user.role = RoleAdmin THEN es
    ELSE IF user.role = RoleSupervisor THEN
        IF Len(user.managed_operators) = 0 THEN <<>>
        ELSE SelectSeq(es, LAMBDA e :
                \E i \in 1..Len(user.managed_operators) :
                    e.logging_user_id = user.managed_operators[i])
    ELSE IF user.role = RoleGateOperator THEN es
    ELSE <<>>

filterEmptyMeansAll(es, user) ==
    IF user.role = RoleAdmin THEN es
    ELSE IF user.role = RoleSupervisor THEN
        IF Len(user.managed_operators) = 0 THEN es
        ELSE SelectSeq(es, LAMBDA e :
                \E i \in 1..Len(user.managed_operators) :
                    e.logging_user_id = user.managed_operators[i])
    ELSE IF user.role = RoleGateOperator THEN
        SelectSeq(es, LAMBDA e : e.logging_user_id = user.user_id)
    ELSE <<>>

filterFailOpen(es, user) ==
    IF user.role = RoleAdmin THEN es
    ELSE IF user.role = RoleSupervisor THEN
        IF Len(user.managed_operators) = 0 THEN <<>>
        ELSE SelectSeq(es, LAMBDA e :
                \E i \in 1..Len(user.managed_operators) :
                    e.logging_user_id = user.managed_operators[i])
    ELSE IF user.role = RoleGateOperator THEN
        SelectSeq(es, LAMBDA e : e.logging_user_id = user.user_id)
    ELSE es

filterEntriesByRole(es, user) ==
    IF user.role = RoleAdmin THEN es
    ELSE IF user.role = RoleSupervisor THEN
        IF Len(user.managed_operators) = 0 THEN <<>>
        ELSE SelectSeq(es, LAMBDA e :
                \E i \in 1..Len(user.managed_operators) :
                    e.logging_user_id = user.managed_operators[i])
    ELSE IF user.role = RoleGateOperator THEN
        SelectSeq(es, LAMBDA e : e.logging_user_id = user.user_id)
    ELSE <<>>

---------------------------------------------------------------------------
(* Connections, requests and responses *)

Slots == {"a", "b"}
SeqSlots == {"a"}   \* the connection used when requests are served one at a time

Idle == [pc |-> "idle"]
NoResp == [kind |-> "none"]

NoRequest == [endpoint |-> "none"]
Request(endpoint, hdr) == [endpoint |-> endpoint, hdr |-> hdr]
RequestWith(endpoint, hdr, body) ==
    [endpoint |-> endpoint, hdr |-> hdr, body |-> body]

NoSince == [kind |-> "none"]
BadSince == [kind |-> "bad"]
Since(t) == [kind |-> "time", t |-> t]

ErrorResp(kind, status) == [kind |-> kind, status |-> status]

Answered(s, kind) == resp[s].kind = kind /\ resp[s].status = 200

\* A connection carries one request at a time: the next one is sent after
\* the response to the previous one was delivered.
Ready(s) ==
    /\ push[s].pc = "idle"
    /\ inflight[s].pc = "idle"
    /\ resp[s] = NoResp

---------------------------------------------------------------------------
(* handlers: SyncHandler.Push *)

HasAccess(user, e) ==
    \E k \in 1..Len(user.allowed_checkpoints) :
        user.allowed_checkpoints[k] = e.checkpoint_id

\* Faulty variants of the loop body: no ownership check; no checkpoint
\* check; nothing is accepted once an entry of the batch was rejected.
OutcomeNoOwnerCheck(r, e, ok) ==
    IF r.user.role = RoleGateOperator /\ ~HasAccess(r.user, e)
        THEN "wrong_checkpoint"
    ELSE IF ~ok THEN "store_error"
    ELSE "accepted"

OutcomeNoCheckpointCheck(r, e, ok) ==
    IF e.logging_user_id # r.user.user_id THEN "wrong_user"
    ELSE IF ~ok THEN "store_error"
    ELSE "accepted"

OutcomeStopAtRejection(r, e, ok) ==
    IF r.rejected > 0 THEN "wrong_user"
    ELSE IF e.logging_user_id # r.user.user_id THEN "wrong_user"
    ELSE IF r.user.role = RoleGateOperator /\ ~HasAccess(r.user, e)
        THEN "wrong_checkpoint"
    ELSE IF ~ok THEN "store_error"
    ELSE "accepted"

\* What the loop body does with entry e of the request whose locals are r;
\* ok is whether the store's Set succeeds.
Outcome(r, e, ok) ==
    IF e.logging_user_id # r.user.user_id THEN "wrong_user"
    ELSE IF r.user.role = RoleGateOperator /\ ~HasAccess(r.user, e)
        THEN "wrong_checkpoint"
    ELSE IF ~ok THEN "store_error"
    ELSE "accepted"

\* The entries a client of uid submits in the authorization model: its own
\* entries for any record id and checkpoint, and entries attributed to
\* somebody else.  The client stamps both timestamps with the time it made
\* the record: E1 at time 0 (unset), the later records at MaxTime.
Pushers == {Admin, SupJohn, OpEast, OpWest, OpNorth, Gone}

OtherThan(uid) == IF uid = OpWest THEN OpEast ELSE OpWest

MadeAt(rid) == IF rid = RecordIDs[1] THEN 0 ELSE MaxTime

ClientEntries(uid) ==
    {Entry(rid, cp, uid, MadeAt(rid), MadeAt(rid), "p") :
        rid \in RecordIDSet, cp \in Checkpoints}
    \cup {Entry(rid, CpEast, OtherThan(uid), MadeAt(rid), MadeAt(rid), "p") :
        rid \in RecordIDSet}

\* The entries a client of uid submits in the delta-sync model: its own
\* entries at its first checkpoint, with any timestamps.
DeltaPushers == {OpEast, OpWest}
DeltaPullers == {Admin, OpEast, OpWest, Guest}

DeltaEntries(uid) ==
    {Entry(rid, GetUser(uid).allowed_checkpoints[1], uid, c, u, "p") :
        rid \in RecordIDSet, c \in Times, u \in Times}

Batches(E, n) == UNION {[1..k -> E] : k \in 0..n}

PushBegin(s, hdr, batch) ==
    /\ Ready(s)
    /\ request' = [request EXCEPT ![s] = Request("push", hdr)]
    /\ LET user == Authenticate(hdr) IN
        IF user = NoUser
        THEN /\ resp' = [resp EXCEPT ![s] = ErrorResp("push", 401)]
             /\ UNCHANGED push
        ELSE /\ push' = [push EXCEPT ![s] =
                    [pc |-> "loop", user |-> user, batch |-> batch, i |-> 1,
                     accepted |-> 0, rejected |-> 0, rejectedIDs |-> <<>>,
                     log |-> <<>>]]
             /\ UNCHANGED resp
    /\ UNCHANGED <<inflight, lastLogin, issued, limiterVars>>
    /\ UNCHANGED <<users, entries, passwords, checkpoints, adminFaults, now,
                   watermark, received>>

PushEntry(s, ok) ==
    /\ push[s].pc = "loop"
    /\ push[s].i <= Len(push[s].batch)
    /\ LET r == push[s]
           e == r.batch[r.i]
           o == Outcome(r, e, ok)
       IN  /\ entries' = IF o = "accepted" THEN CreateEntry(entries, e)
                         ELSE entries
           /\ push' = [push EXCEPT ![s] =
                  [r EXCEPT
                    !.i = @ + 1,
                    !.accepted = IF o = "accepted" THEN @ + 1 ELSE @,
                    !.rejected = IF o = "accepted" THEN @ ELSE @ + 1,
                    !.rejectedIDs = IF o = "accepted" THEN @
                                    ELSE Append(@, e.record_id),
                    !.log = Append(@, o)]]
    /\ UNCHANGED <<inflight, lastLogin, issued, limiterVars>>
    /\ UNCHANGED <<users, passwords, checkpoints, adminFaults, now, request,
                   resp, watermark, received>>

\* Faulty variant of the response: success whenever something was accepted.
PushResponseSuccessIfAny(r) ==
    [kind |-> "push", status |-> 200,
     success |-> (r.accepted > 0), accepted |-> r.accepted,
     rejected |-> r.rejected, rejected_ids |-> r.rejectedIDs]

PushResponse(r) ==
    [kind |-> "push", status |-> 200,
     success |-> (r.rejected = 0), accepted |-> r.accepted,
     rejected |-> r.rejected, rejected_ids |-> r.rejectedIDs]

PushEnd(s) ==
    /\ push[s].pc = "loop"
    /\ push[s].i > Len(push[s].batch)
    /\ resp' = [resp EXCEPT ![s] = PushResponse(push[s])]
    /\ push' = [push EXCEPT ![s] = Idle]
    /\ UNCHANGED <<inflight, lastLogin, issued, limiterVars>>
    /\ UNCHANGED <<users, entries, passwords, checkpoints, adminFaults, now,
                   request, watermark, received>>

\* The caller of the push on connection s gives up (its timeout passes).
\* The handler does not look at the request's context and the store calls
\* run under the database's own context, so the loop goes on; nothing is
\* undone.
Abandon(s) ==
    /\ push[s].pc = "loop"
    /\ request[s] = Request("push", request[s].hdr)
    /\ request' = [request EXCEPT ![s] =
            [endpoint |-> "push", hdr |-> @.hdr, abandoned |-> TRUE]]
    /\ UNCHANGED <<inflight, lastLogin, issued, limiterVars>>
    /\ UNCHANGED <<users, entries, passwords, checkpoints, adminFaults, now,
                   push, resp, watermark, received>>

---------------------------------------------------------------------------
(* handlers: SyncHandler.Pull, SupervisorHandler.GetEntries, ExportEntries *)

PullResponse(user, since, ok) ==
    IF since.kind = "bad" THEN ErrorResp("pull", 400)
    ELSE IF ~ok THEN ErrorResp("pull", 500)
    ELSE LET es == IF since.kind = "time" THEN GetEntriesSince(since.t)
                   ELSE GetAllEntries
             filtered == filterEntriesByRole(es, user)
         IN  [kind |-> "pull", status |-> 200, user |-> user, since |-> since,
              entries |-> filtered, count |-> Len(filtered)]

Pull(s, hdr, since, ok) ==
    /\ Ready(s)
    /\ request' = [request EXCEPT ![s] = Request("pull", hdr)]
    /\ LET user == Authenticate(hdr) IN
        resp' = [resp EXCEPT ![s] =
            IF user = NoUser THEN ErrorResp("pull", 401)
            ELSE PullResponse(user, since, ok)]
    /\ UNCHANGED <<inflight, lastLogin, issued, limiterVars>>
    /\ UNCHANGED <<users, entries, passwords, checkpoints, adminFaults, now,
                   push, watermark, received>>

SupervisorOrAdmin == {RoleSupervisor, RoleAdmin}

GetEntries(s, hdr, ok) ==
    /\ Ready(s)
    /\ request' = [request EXCEPT ![s] = Request("entries", hdr)]
    /\ LET user == Authenticate(hdr) IN
        resp' = [resp EXCEPT ![s] =
            IF user = NoUser THEN ErrorResp("entries", 401)
            ELSE IF ~RequireRole(user, SupervisorOrAdmin)
                THEN ErrorResp("entries", 403)
            ELSE IF ~ok THEN ErrorResp("entries", 500)
            ELSE LET filtered == filterEntriesByRole(GetAllEntries, user)
                 IN  [kind |-> "entries", status |-> 200, user |-> user,
                      entries |-> filtered, count |-> Len(filtered)]]
    /\ UNCHANGED <<inflight, lastLogin, issued, limiterVars>>
    /\ UNCHANGED <<users, entries, passwords, checkpoints, adminFaults, now,
                   push, watermark, received>>

FormatRFC3339(t) == <<"RFC3339", t>>

CsvHeader ==
    <<"Record ID", "Entry Type", "Checkpoint ID", "Logging User ID",
      "Created At", "Client Timestamp", "Status", "Payload">>

CsvRow(e) ==
    <<e.record_id, e.entry_type, e.checkpoint_id, e.logging_user_id,
      FormatRFC3339(e.created_at), FormatRFC3339(e.client_ts), e.status,
      e.payload>>

ExportEntries(s, hdr, ok) ==
    /\ Ready(s)
    /\ request' = [request EXCEPT ![s] = Request("export", hdr)]
    /\ LET user == Authenticate(hdr) IN
        resp' = [resp EXCEPT ![s] =
            IF user = NoUser THEN ErrorResp("export", 401)
            ELSE IF ~RequireRole(user, SupervisorOrAdmin)
                THEN ErrorResp("export", 403)
            ELSE IF ~ok THEN ErrorResp("export", 500)
            ELSE LET filtered == filterEntriesByRole(GetAllEntries, user)
                 IN  [kind |-> "export", status |-> 200, user |-> user,
                      rows |-> <<CsvHeader>> \o
                               [i \in 1..Len(filtered) |-> CsvRow(filtered[i])]]]
    /\ UNCHANGED <<inflight, lastLogin, issued, limiterVars>>
    /\ UNCHANGED <<users, entries, passwords, checkpoints, adminFaults, now,
                   push, watermark, received>>

---------------------------------------------------------------------------
(* The client side of a connection *)

\* The response is delivered; the connection is free again.
Deliver(s) ==
    /\ resp[s] # NoResp
    /\ resp' = [resp EXCEPT ![s] = NoResp]
    /\ request' = [request EXCEPT ![s] = NoRequest]
    /\ UNCHANGED <<inflight, lastLogin, issued, limiterVars>>
    /\ UNCHANGED <<users, entries, passwords, checkpoints, adminFaults, now,
                   push, watermark, received>>

---------------------------------------------------------------------------
(* auth: the password policy and the credential store *)

MinPasswordLength == 8

\* A password is the sequence of its characters.
Letters == {"a", "b", "c", "d", "o", "p", "r", "s", "w"}
Digits == {"0", "1", "2", "3", "4", "5", "6", "7", "8", "9"}

\* Faulty variant of the policy: only the length is checked.
ValidatePasswordStrengthLengthOnly(pw) == Len(pw) >= MinPasswordLength

ValidatePasswordStrength(pw) ==
    /\ Len(pw) >= MinPasswordLength
    /\ \E i \in 1..Len(pw) : pw[i] \in Letters
    /\ \E i \in 1..Len(pw) : pw[i] \in Digits

HashPassword(pw) == [bcrypt |-> pw]

NoPassword == [none |-> "password"]

StorePasswordHash(store, uid, hash) ==
    [store EXCEPT ![uid] =
        [user_id |-> uid, password_hash |-> hash, updated_at |-> now]]

SeedPassword == <<"p", "a", "s", "s", "w", "o", "r", "d">>
StrongPassword == <<"p", "a", "s", "s", "w", "0", "r", "d">>
WeakPassword == <<"a", "b", "c">>
NoLetterPassword == <<"1", "2", "3", "4", "5", "6", "7", "8">>

\* Passwords the policy rejects: too short, without a digit, without a
\* letter.
WeakPasswords == {WeakPassword, SeedPassword, NoLetterPassword}

\* The credentials at start: every stored user has the seeder's password.
SeedPasswords ==
    [u \in DocIDs |->
        IF SeedUsers[u] = NoUser THEN NoPassword
        ELSE [user_id |-> u, password_hash |-> HashPassword(SeedPassword),
              updated_at |-> 0]]

---------------------------------------------------------------------------
(* models: checkpoints *)

CpSouth == "CP-SOUTH-01"
CpNew == "CP-NEW-01"      \* a checkpoint that is not seeded
CheckpointIDs == {CpEast, CpWest, CpNorth, CpSouth, CpNew}

NoCheckpoint == [none |-> "checkpoint"]

Checkpoint(id, name, location) ==
    [checkpoint_id |-> id, name |-> name, location |-> location]

SeedCheckpoints ==
    [c \in CheckpointIDs |->
        CASE c = CpEast  -> Checkpoint(CpEast, "East Main Gate", "Sector 1")
          [] c = CpWest  -> Checkpoint(CpWest, "West Gate", "Sector 4")
          [] c = CpNorth -> Checkpoint(CpNorth, "North Checkpoint 1", "Sector 2")
          [] c = CpSouth -> Checkpoint(CpSouth, "South Checkpoint 1", "Sector 3")
          [] OTHER       -> NoCheckpoint]

---------------------------------------------------------------------------
(* db: user documents.  FirestoreDB.CreateUser and FirestoreDB.UpdateUser   *)
(* are both Doc(user.UserID).Set(user).                                    *)

GetUserFrom(store, uid) == IF uid \in DOMAIN store THEN store[uid] ELSE NoUser

SetUser(store, user) == [store EXCEPT ![user.user_id] = user]

DeleteUserDoc(store, uid) == [store EXCEPT ![uid] = NoUser]

\* Where("username", "==", username).Limit(1): a matching user, or NoUser.
GetUserByUsername(username) ==
    LET m == {u \in DocIDs : users[u] # NoUser /\ users[u].username = username}
    IN  IF m = {} THEN NoUser ELSE users[CHOOSE u \in m : TRUE]

---------------------------------------------------------------------------
(* handlers: AdminHandler.  A handler is served in one step; F is the set   *)
(* of its store operations that fail in this request.                      *)

AdminOnly == {RoleAdmin}

BadBody == [bad |-> TRUE]

\* A []string of a request body: nil when the field is absent.
NilList == [nil |-> TRUE, list |-> <<>>]
List(l) == [nil |-> FALSE, list |-> l]

Out(status, us, pw, body) ==
    [status |-> status, users |-> us, passwords |-> pw, body |-> body]

\* Faulty variant of the repair: the operator is appended without looking
\* whether the list holds it already.
AddManagedOperatorNoLookup(us, supID, opID, F, get, upd) ==
    LET sup == GetUserFrom(us, supID) IN
    IF get \in F \/ sup = NoUser THEN us
    ELSE IF upd \in F THEN us
    ELSE SetUser(us, [sup EXCEPT !.managed_operators = Append(@, opID)])

\* Add opID to the managed_operators of supID if it is not there; a failing
\* lookup or write is ignored.
AddManagedOperator(us, supID, opID, F, get, upd) ==
    LET sup == GetUserFrom(us, supID) IN
    IF get \in F \/ sup = NoUser THEN us
    ELSE IF opID \in Range(sup.managed_operators) THEN us
    ELSE IF upd \in F THEN us
    ELSE SetUser(us, [sup EXCEPT !.managed_operators = Append(@, opID)])

\* Faulty variant of the repair: the list is left as it is.
RemoveManagedOperatorKeeps(us, supID, opID, F, get, upd) == us

\* Remove opID from the managed_operators of supID; a failing lookup or
\* write is ignored.
RemoveManagedOperator(us, supID, opID, F, get, upd) ==
    LET sup == GetUserFrom(us, supID) IN
    IF get \in F \/ sup = NoUser THEN us
    ELSE IF upd \in F THEN us
    ELSE SetUser(us, [sup EXCEPT !.managed_operators =
                        SelectSeq(@, LAMBDA id : id # opID)])

CreateUserHandler(body, F) ==
    IF body = BadBody THEN Out(400, users, passwords, "")
    ELSE IF body.username = "" \/ body.password = <<>>
        THEN Out(400, users, passwords, "")
    ELSE IF ~ValidatePasswordStrength(body.password)
        THEN Out(400, users, passwords, "")
    ELSE IF "lookup" \notin F /\ GetUserByUsername(body.username) # NoUser
        THEN Out(409, users, passwords, "")
    ELSE
        LET userID == "user-" \o body.username
            user == User(userID, body.username, body.role,
                         body.allowed_checkpoints, body.supervisor_id, <<>>)
            us1 == SetUser(users, user)
            pw1 == StorePasswordHash(passwords, userID,
                                     HashPassword(body.password))
        IN  IF "create" \in F THEN Out(500, users, passwords, "")
            ELSE IF "hash" \in F THEN Out(500, us1, passwords, "")
            ELSE IF "password" \in F THEN Out(500, us1, passwords, "")
            ELSE IF body.role = RoleGateOperator /\ body.supervisor_id # ""
                THEN Out(200, AddManagedOperator(us1, body.supervisor_id,
                                                 userID, F, "getsup", "updsup"),
                         pw1, user)
            ELSE Out(200, us1, pw1, user)

UpdateUserHandler(body, F) ==
    IF body = BadBody THEN Out(400, users, passwords, "")
    ELSE IF body.user_id = "" THEN Out(400, users, passwords, "")
    ELSE IF "get" \in F \/ GetUserFrom(users, body.user_id) = NoUser
        THEN Out(404, users, passwords, "")
    ELSE
        LET old == GetUser(body.user_id)
            oldSupervisorID == old.supervisor_id
            user == [old EXCEPT
                        !.role = IF body.role # "" THEN body.role ELSE @,
                        !.allowed_checkpoints =
                            IF ~body.allowed_checkpoints.nil
                            THEN body.allowed_checkpoints.list ELSE @,
                        !.supervisor_id =
                            IF body.supervisor_id # "" THEN body.supervisor_id
                            ELSE @]
            us1 == SetUser(users, user)
            us2 == IF oldSupervisorID # ""
                   THEN RemoveManagedOperator(us1, oldSupervisorID,
                                              body.user_id, F, "getold", "updold")
                   ELSE us1
            us3 == IF body.supervisor_id # ""
                   THEN AddManagedOperator(us2, body.supervisor_id,
                                           body.user_id, F, "getnew", "updnew")
                   ELSE us2
        IN  IF "update" \in F THEN Out(500, users, passwords, "")
            ELSE IF oldSupervisorID # body.supervisor_id
                THEN Out(200, us3, passwords, user)
            ELSE Out(200, us1, passwords, user)

\* Faulty variant of the handler: the user is deleted without removing it
\* from its supervisor's list.
DeleteUserHandlerNoRepair(adminUser, body, F) ==
    IF body = BadBody THEN Out(400, users, passwords, "")
    ELSE IF body.user_id = "" THEN Out(400, users, passwords, "")
    ELSE IF body.user_id = adminUser.user_id
        THEN Out(400, users, passwords, "Cannot delete your own account")
    ELSE IF "get" \in F \/ GetUserFrom(users, body.user_id) = NoUser
        THEN Out(404, users, passwords, "")
    ELSE IF "delete" \in F THEN Out(500, users, passwords, "")
    ELSE Out(200, DeleteUserDoc(users, body.user_id), passwords, "deleted")

\* Faulty variant of the handler: the requester may be the target.
DeleteUserHandlerAllowsSelf(adminUser, body, F) ==
    IF body = BadBody THEN Out(400, users, passwords, "")
    ELSE IF body.user_id = "" THEN Out(400, users, passwords, "")
    ELSE IF "get" \in F \/ GetUserFrom(users, body.user_id) = NoUser
        THEN Out(404, users, passwords, "")
    ELSE
        LET user == GetUser(body.user_id)
            us1 == IF user.supervisor_id # ""
                   THEN RemoveManagedOperator(users, user.supervisor_id,
                                              body.user_id, F, "getsup", "updsup")
                   ELSE users
        IN  IF "delete" \in F THEN Out(500, us1, passwords, "")
            ELSE Out(200, DeleteUserDoc(us1, body.user_id), passwords, "deleted")

DeleteUserHandler(adminUser, body, F) ==
    IF body = BadBody THEN Out(400, users, passwords, "")
    ELSE IF body.user_id = "" THEN Out(400, users, passwords, "")
    ELSE IF body.user_id = adminUser.user_id
        THEN Out(400, users, passwords, "Cannot delete your own account")
    ELSE IF "get" \in F \/ GetUserFrom(users, body.user_id) = NoUser
        THEN Out(404, users, passwords, "")
    ELSE
        LET user == GetUser(body.user_id)
            us1 == IF user.supervisor_id # ""
                   THEN RemoveManagedOperator(users, user.supervisor_id,
                                              body.user_id, F, "getsup", "updsup")
                   ELSE users
        IN  IF "delete" \in F THEN Out(500, us1, passwords, "")
            ELSE Out(200, DeleteUserDoc(us1, body.user_id), passwords, "deleted")

\* Whether the middleware chain of the admin routes lets the request
\* through to its handler.
Admitted(hdr) ==
    /\ Authenticate(hdr) # NoUser
    /\ RequireRole(Authenticate(hdr), AdminOnly)

\* The middleware chain of the admin routes, then the handler.
AdminRoute(s, endpoint, hdr, out) ==
    /\ Ready(s)
    /\ request' = [request EXCEPT ![s] = Request(endpoint, hdr)]
    /\ LET user == Authenticate(hdr) IN
        IF user = NoUser
        THEN /\ resp' = [resp EXCEPT ![s] = ErrorResp(endpoint, 401)]
             /\ UNCHANGED <<users, passwords>>
        ELSE IF ~RequireRole(user, AdminOnly)
        THEN /\ resp' = [resp EXCEPT ![s] = ErrorResp(endpoint, 403)]
             /\ UNCHANGED <<users, passwords>>
        ELSE /\ resp' = [resp EXCEPT ![s] =
                    [kind |-> endpoint, status |-> out.status,
                     body |-> out.body]]
             /\ users' = out.users
             /\ passwords' = out.passwords

CreateUser(s, hdr, body, F) ==
    /\ AdminRoute(s, "create_user", hdr, CreateUserHandler(body, F))
    /\ adminFaults' = (adminFaults \/ (Admitted(hdr) /\ F # {}))
    /\ lastLogin' =
            IF Admitted(hdr) /\ CreateUserHandler(body, F).users # users
            THEN [lastLogin EXCEPT !["user-" \o body.username] = now]
            ELSE lastLogin
    /\ UNCHANGED <<inflight, issued, limiterVars>>
    /\ UNCHANGED <<entries, checkpoints, now, push, watermark, received>>

UpdateUser(s, hdr, body, F) ==
    /\ AdminRoute(s, "update_user", hdr, UpdateUserHandler(body, F))
    /\ adminFaults' = (adminFaults \/ (Admitted(hdr) /\ F # {}))
    /\ UNCHANGED <<inflight, lastLogin, issued, limiterVars>>
    /\ UNCHANGED <<entries, checkpoints, now, push, watermark, received>>

DeleteUser(s, hdr, body, F) ==
    /\ AdminRoute(s, "delete_user", hdr,
                  DeleteUserHandler(Authenticate(hdr), body, F))
    /\ adminFaults' = (adminFaults \/ (Admitted(hdr) /\ F # {}))
    /\ UNCHANGED <<inflight, lastLogin, issued, limiterVars>>
    /\ UNCHANGED <<entries, checkpoints, now, push, watermark, received>>

CreateCheckpoint(s, hdr, body, ok) ==
    /\ Ready(s)
    /\ request' = [request EXCEPT ![s] = Request("create_checkpoint", hdr)]
    /\ LET user == Authenticate(hdr)
           status ==
               IF user = NoUser THEN 401
               ELSE IF ~RequireRole(user, AdminOnly) THEN 403
               ELSE IF body = BadBody THEN 400
               ELSE IF body.checkpoint_id = "" \/ body.name = "" THEN 400
               ELSE IF ~ok THEN 500
               ELSE 200
       IN  /\ resp' = [resp EXCEPT ![s] =
                  IF status = 200
                  THEN [kind |-> "create_checkpoint", status |-> 200,
                        body |-> body]
                  ELSE ErrorResp("create_checkpoint", status)]
           /\ checkpoints' =
                  IF status = 200
                  THEN [checkpoints EXCEPT ![body.checkpoint_id] = body]
                  ELSE checkpoints
    /\ UNCHANGED <<inflight, lastLogin, issued, limiterVars>>
    /\ UNCHANGED <<users, entries, passwords, adminFaults, now, push,
                   watermark, received>>

\* The read-only admin routes.
GetUsers(s, hdr, ok) ==
    /\ Ready(s)
    /\ request' = [request EXCEPT ![s] = Request("users", hdr)]
    /\ LET user == Authenticate(hdr) IN
        resp' = [resp EXCEPT ![s] =
            IF user = NoUser THEN ErrorResp("users", 401)
            ELSE IF ~RequireRole(user, AdminOnly) THEN ErrorResp("users", 403)
            ELSE IF ~ok THEN ErrorResp("users", 500)
            ELSE [kind |-> "users", status |-> 200,
                  body |-> {users[u] : u \in {x \in DocIDs : users[x] # NoUser}}]]
    /\ UNCHANGED <<inflight, lastLogin, issued, limiterVars>>
    /\ UNCHANGED <<users, entries, passwords, checkpoints, adminFaults, now,
                   push, watermark, received>>

GetCheckpoints(s, hdr, ok) ==
    /\ Ready(s)
    /\ request' = [request EXCEPT ![s] = Request("checkpoints", hdr)]
    /\ LET user == Authenticate(hdr) IN
        resp' = [resp EXCEPT ![s] =
            IF user = NoUser THEN ErrorResp("checkpoints", 401)
            ELSE IF ~RequireRole(user, AdminOnly)
                THEN ErrorResp("checkpoints", 403)
            ELSE IF ~ok THEN ErrorResp("checkpoints", 500)
            ELSE [kind |-> "checkpoints", status |-> 200,
                  body |-> {checkpoints[c] :
                            c \in {x \in CheckpointIDs :
                                     checkpoints[x] # NoCheckpoint}}]]
    /\ UNCHANGED <<inflight, lastLogin, issued, limiterVars>>
    /\ UNCHANGED <<users, entries, passwords, checkpoints, adminFaults, now,
                   push, watermark, received>>

---------------------------------------------------------------------------
(* handlers: SupervisorHandler.ResetPassword *)

\* Faulty variant: a supervisor's target is not looked up in the
\* supervisor's managed_operators.
ResetPasswordStatusNoScope(supervisor, body, F) ==
    IF body = BadBody THEN 400
    ELSE IF body.user_id = "" \/ body.new_password = <<>> THEN 400
    ELSE IF ~ValidatePasswordStrength(body.new_password) THEN 400
    ELSE IF "get" \in F \/ GetUserFrom(users, body.user_id) = NoUser THEN 404
    ELSE IF "hash" \in F THEN 500
    ELSE IF "password" \in F THEN 500
    ELSE 200

ResetPasswordStatus(supervisor, body, F) ==
    IF body = BadBody THEN 400
    ELSE IF body.user_id = "" \/ body.new_password = <<>> THEN 400
    ELSE IF ~ValidatePasswordStrength(body.new_password) THEN 400
    ELSE IF "get" \in F \/ GetUserFrom(users, body.user_id) = NoUser THEN 404
    ELSE IF /\ supervisor.role = RoleSupervisor
            /\ body.user_id \notin Range(supervisor.managed_operators) THEN 403
    ELSE IF "hash" \in F THEN 500
    ELSE IF "password" \in F THEN 500
    ELSE 200

ResetPassword(s, hdr, body, F) ==
    /\ Ready(s)
    /\ request' = [request EXCEPT ![s] =
                        RequestWith("reset_password", hdr, body)]
    /\ LET user == Authenticate(hdr)
           status ==
               IF user = NoUser THEN 401
               ELSE IF ~RequireRole(user, SupervisorOrAdmin) THEN 403
               ELSE ResetPasswordStatus(user, body, F)
       IN  /\ resp' = [resp EXCEPT ![s] = ErrorResp("reset_password", status)]
           /\ passwords' =
                  IF status = 200
                  THEN StorePasswordHash(passwords, body.user_id,
                                         HashPassword(body.new_password))
                  ELSE passwords
    /\ UNCHANGED <<inflight, lastLogin, issued, limiterVars>>
    /\ UNCHANGED <<users, entries, checkpoints, adminFaults, now, push,
                   watermark, received>>

---------------------------------------------------------------------------
(* handlers: AuthHandler.  Login and RefreshToken are not behind the       *)
(* authentication middleware.                                              *)

\* Token lifetimes in ticks of the clock: the refresh token outlives the
\* access token.
TokenExpiration == 1
RefreshTokenExpiration == 2

\* The claims of a token and whether its signature verifies.  No claim
\* tells an access token from a refresh token.
Claims(user, exp) ==
    [user_id |-> user.user_id, username |-> user.username,
     role |-> user.role, signed |-> TRUE, issued_at |-> now,
     expires_at |-> exp]

GenerateToken(user) == Claims(user, now + TokenExpiration)
GenerateRefreshToken(user) == Claims(user, now + RefreshTokenExpiration)

\* bcrypt.CompareHashAndPassword
CheckPassword(pw, hash) == hash = HashPassword(pw)

GetPasswordHash(uid) == passwords[uid]

MessageResp(kind, status, message) ==
    [kind |-> kind, status |-> status, body |-> message]

\* Faulty variant: the response tells which check failed.
LoginFailureReveals(check) == MessageResp("login", 401, check)

\* The response to a login that fails the check `check`.
LoginFailure(check) ==
    MessageResp("login", 401, "Invalid username or password")

LoginOps == {"lookup", "hash", "update", "sign", "signrefresh"}

LoginResponse(body, F) ==
    IF body = BadBody THEN MessageResp("login", 400, "Invalid request body")
    ELSE IF body.username = "" \/ body.password = <<>>
        THEN MessageResp("login", 400, "Username and password are required")
    ELSE IF "lookup" \in F \/ GetUserByUsername(body.username) = NoUser
        THEN LoginFailure("user not found")
    ELSE
        LET user == GetUserByUsername(body.username) IN
        IF "hash" \in F \/ GetPasswordHash(user.user_id) = NoPassword
            THEN LoginFailure("password hash not found")
        ELSE IF ~CheckPassword(body.password,
                               GetPasswordHash(user.user_id).password_hash)
            THEN LoginFailure("invalid password")
        ELSE IF "sign" \in F
            THEN MessageResp("login", 500,
                             "Failed to generate authentication token")
        ELSE IF "signrefresh" \in F
            THEN MessageResp("login", 500,
                             "Failed to generate refresh token")
        ELSE [kind |-> "login", status |-> 200,
              body |-> [token |-> GenerateToken(user),
                        refresh_token |-> GenerateRefreshToken(user),
                        user |-> user]]

\* The password has been verified: last_login is written before the
\* tokens are generated, and a failure of that write is only logged.
LoginVerified(body, F) ==
    LoginResponse(body, F).status \in {200, 500}

Login(s, body, F) ==
    /\ Ready(s)
    /\ request' = [request EXCEPT ![s] = RequestWith("login", NoHeader, body)]
    /\ resp' = [resp EXCEPT ![s] = LoginResponse(body, F)]
    /\ IF LoginVerified(body, F) /\ "update" \notin F
       THEN LET user == GetUserByUsername(body.username) IN
            /\ users' = SetUser(users, user)
            /\ lastLogin' = [lastLogin EXCEPT ![user.user_id] = now]
       ELSE UNCHANGED <<users, lastLogin>>
    /\ issued' =
            IF LoginResponse(body, F).status = 200
            THEN issued \cup {LoginResponse(body, F).body.refresh_token}
            ELSE issued
    /\ UNCHANGED <<entries, passwords, checkpoints, adminFaults, now, push,
                   inflight, watermark, received, limiterVars>>

\* Faulty variant: the new token is minted from the refresh token's claims.
RefreshSubjectFromClaims(claims, F) ==
    [user_id |-> claims.user_id, username |-> claims.username,
     role |-> claims.role]

\* The user the new access token is minted for: the stored user the
\* claims name, or NoUser.
RefreshSubject(claims, F) ==
    IF "get" \in F THEN NoUser ELSE GetUserFrom(users, claims.user_id)

RefreshOps == {"get", "sign"}

\* A request body carries no token, a string that is no token of this
\* server, or a token.
NoTokenBody == [kind |-> "bad"]
TokenBody(tok) == [kind |-> "token", token |-> tok]

RefreshResponse(body, F) ==
    IF body = NoTokenBody
        THEN MessageResp("refresh", 400, "Invalid request body")
    ELSE IF ~ValidateToken(body.token)
        THEN MessageResp("refresh", 401, "Invalid or expired refresh token")
    ELSE
        LET user == RefreshSubject(body.token, F) IN
        IF user = NoUser THEN MessageResp("refresh", 401, "User not found")
        ELSE IF "sign" \in F
            THEN MessageResp("refresh", 500,
                             "Failed to generate authentication token")
        ELSE [kind |-> "refresh", status |-> 200,
              body |-> [token |-> GenerateToken(user)]]

RefreshToken(s, body, F) ==
    /\ Ready(s)
    /\ request' = [request EXCEPT ![s] =
                        RequestWith("refresh", NoHeader, body)]
    /\ resp' = [resp EXCEPT ![s] = RefreshResponse(body, F)]
    /\ UNCHANGED <<users, entries, passwords, checkpoints, adminFaults, now,
                   push, inflight, watermark, received, lastLogin, issued,
                   limiterVars>>

---------------------------------------------------------------------------
(* handlers: the admin handlers and Login, one store operation per step.   *)
(* A handler runs in its own goroutine and is suspended at each store call *)
(* (a network round trip), so the store operations of requests served at   *)
(* the same time interleave.  Each handler keeps the documents it has read *)
(* in its locals and writes whole documents back (Doc(id).Set).  No store  *)
(* operation fails here.                                                   *)

\* The locals of a handler at position pc: the request body, the user
\* document and the supervisor document it holds, the old supervisor id.
Work(kind, body, pc) ==
    [pc |-> pc, kind |-> kind, body |-> body, user |-> NoUser,
     sup |-> NoUser, old |-> ""]

AdminResp(kind, status, body) ==
    [kind |-> kind, status |-> status, body |-> body]

\* The handler on connection s writes its response and returns; or it goes
\* on with locals r.
Finish(s, response) ==
    /\ resp' = [resp EXCEPT ![s] = response]
    /\ inflight' = [inflight EXCEPT ![s] = Idle]

Continue(s, r) ==
    /\ inflight' = [inflight EXCEPT ![s] = r]
    /\ UNCHANGED resp

\* What the steps of these handlers never touch.
StepFrame ==
    UNCHANGED <<entries, checkpoints, adminFaults, now, push, request,
                watermark, received, limiterVars>>

\* The middleware chain of the admin routes and the handler's checks of the
\* body: the status the request is refused with, or 0.
AdminRefusal(hdr, bodyStatus) ==
    IF Authenticate(hdr) = NoUser THEN 401
    ELSE IF ~RequireRole(Authenticate(hdr), AdminOnly) THEN 403
    ELSE bodyStatus

Begin(s, kind, hdr, body, refusal, pc) ==
    /\ Ready(s)
    /\ request' = [request EXCEPT ![s] = RequestWith(kind, hdr, body)]
    /\ IF refusal # 0 THEN Finish(s, AdminResp(kind, refusal, ""))
       ELSE Continue(s, Work(kind, body, pc))
    /\ UNCHANGED <<users, entries, passwords, checkpoints, adminFaults, now,
                   push, watermark, received, lastLogin, issued,
                   limiterVars>>

CreateUserBegin(s, hdr, body) ==
    Begin(s, "create_user", hdr, body,
          AdminRefusal(hdr,
              IF body = BadBody THEN 400
              ELSE IF body.username = "" \/ body.password = <<>> THEN 400
              ELSE IF ~ValidatePasswordStrength(body.password) THEN 400
              ELSE 0),
          "lookup")

CreateUserStep(s) ==
    /\ inflight[s].pc # "idle"
    /\ inflight[s].kind = "create_user"
    /\ LET r == inflight[s]
           body == r.body
           userID == "user-" \o body.username
           user == User(userID, body.username, body.role,
                        body.allowed_checkpoints, body.supervisor_id, <<>>)
           done == Finish(s, AdminResp("create_user", 200, user))
       IN  CASE r.pc = "lookup" ->
                /\ IF GetUserByUsername(body.username) # NoUser
                   THEN Finish(s, AdminResp("create_user", 409, ""))
                   ELSE Continue(s, [r EXCEPT !.pc = "create"])
                /\ UNCHANGED <<users, passwords, lastLogin>>
             [] r.pc = "create" ->
                /\ users' = SetUser(users, user)
                /\ lastLogin' = [lastLogin EXCEPT ![userID] = now]
                /\ Continue(s, [r EXCEPT !.pc = "password"])
                /\ UNCHANGED passwords
             [] r.pc = "password" ->
                /\ passwords' = StorePasswordHash(passwords, userID,
                                                  HashPassword(body.password))
                /\ IF body.role = RoleGateOperator /\ body.supervisor_id # ""
                   THEN Continue(s, [r EXCEPT !.pc = "getsup"])
                   ELSE done
                /\ UNCHANGED <<users, lastLogin>>
             [] r.pc = "getsup" ->
                /\ LET sup == GetUserFrom(users, body.supervisor_id) IN
                    IF sup = NoUser THEN done
                    ELSE IF userID \in Range(sup.managed_operators) THEN done
                    ELSE Continue(s, [r EXCEPT
                            !.pc = "updsup",
                            !.sup = [sup EXCEPT !.managed_operators =
                                        Append(@, userID)]])
                /\ UNCHANGED <<users, passwords, lastLogin>>
             [] r.pc = "updsup" ->
                /\ users' = SetUser(users, r.sup)
                /\ done
                /\ UNCHANGED <<passwords, lastLogin>>
    /\ UNCHANGED issued
    /\ StepFrame

UpdateUserBegin(s, hdr, body) ==
    Begin(s, "update_user", hdr, body,
          AdminRefusal(hdr,
              IF body = BadBody THEN 400
              ELSE IF body.user_id = "" THEN 400
              ELSE 0),
          "get")

UpdateUserStep(s) ==
    /\ inflight[s].pc # "idle"
    /\ inflight[s].kind = "update_user"
    /\ LET r == inflight[s]
           body == r.body
           done == Finish(s, AdminResp("update_user", 200, r.user))
           \* after the old supervisor's list: the new supervisor's list
           addNew == IF body.supervisor_id # ""
                     THEN Continue(s, [r EXCEPT !.pc = "getnew"])
                     ELSE done
       IN  CASE r.pc = "get" ->
                /\ LET old == GetUserFrom(users, body.user_id) IN
                    IF old = NoUser
                    THEN Finish(s, AdminResp("update_user", 404, ""))
                    ELSE Continue(s, [r EXCEPT
                            !.pc = "update",
                            !.old = old.supervisor_id,
                            !.user = [old EXCEPT
                                !.role = IF body.role # "" THEN body.role
                                         ELSE @,
                                !.allowed_checkpoints =
                                    IF ~body.allowed_checkpoints.nil
                                    THEN body.allowed_checkpoints.list
                                    ELSE @,
                                !.supervisor_id =
                                    IF body.supervisor_id # ""
                                    THEN body.supervisor_id ELSE @]])
                /\ UNCHANGED users
             [] r.pc = "update" ->
                /\ users' = SetUser(users, r.user)
                /\ IF r.old = body.supervisor_id THEN done
                   ELSE IF r.old # ""
                        THEN Continue(s, [r EXCEPT !.pc = "getold"])
                   ELSE addNew
             [] r.pc = "getold" ->
                /\ LET sup == GetUserFrom(users, r.old) IN
                    IF sup = NoUser THEN addNew
                    ELSE Continue(s, [r EXCEPT
                            !.pc = "updold",
                            !.sup = [sup EXCEPT !.managed_operators =
                                SelectSeq(@, LAMBDA id : id # body.user_id)]])
                /\ UNCHANGED users
             [] r.pc = "updold" ->
                /\ users' = SetUser(users, r.sup)
                /\ addNew
             [] r.pc = "getnew" ->
                /\ LET sup == GetUserFrom(users, body.supervisor_id) IN
                    IF sup = NoUser THEN done
                    ELSE IF body.user_id \in Range(sup.managed_operators)
                        THEN done
                    ELSE Continue(s, [r EXCEPT
                            !.pc = "updnew",
                            !.sup = [sup EXCEPT !.managed_operators =
                                        Append(@, body.user_id)]])
                /\ UNCHANGED users
             [] r.pc = "updnew" ->
                /\ users' = SetUser(users, r.sup)
                /\ done
    /\ UNCHANGED <<passwords, lastLogin, issued>>
    /\ StepFrame

DeleteUserBegin(s, hdr, body) ==
    Begin(s, "delete_user", hdr, body,
          AdminRefusal(hdr,
              IF body = BadBody THEN 400
              ELSE IF body.user_id = "" THEN 400
              ELSE IF body.user_id = Authenticate(hdr).user_id THEN 400
              ELSE 0),
          "get")

DeleteUserStep(s) ==
    /\ inflight[s].pc # "idle"
    /\ inflight[s].kind = "delete_user"
    /\ LET r == inflight[s]
           body == r.body
       IN  CASE r.pc = "get" ->
                /\ LET user == GetUserFrom(users, body.user_id) IN
                    IF user = NoUser
                    THEN Finish(s, AdminResp("delete_user", 404, ""))
                    ELSE Continue(s, [r EXCEPT
                            !.pc = IF user.supervisor_id # "" THEN "getsup"
                                   ELSE "delete",
                            !.user = user])
                /\ UNCHANGED users
             [] r.pc = "getsup" ->
                /\ LET sup == GetUserFrom(users, r.user.supervisor_id) IN
                    IF sup = NoUser
                    THEN Continue(s, [r EXCEPT !.pc = "delete"])
                    ELSE Continue(s, [r EXCEPT
                            !.pc = "updsup",
                            !.sup = [sup EXCEPT !.managed_operators =
                                SelectSeq(@, LAMBDA id : id # body.user_id)]])
                /\ UNCHANGED users
             [] r.pc = "updsup" ->
                /\ users' = SetUser(users, r.sup)
                /\ Continue(s, [r EXCEPT !.pc = "delete"])
             [] r.pc = "delete" ->
                /\ users' = DeleteUserDoc(users, body.user_id)
                /\ Finish(s, AdminResp("delete_user", 200, "deleted"))
    /\ UNCHANGED <<passwords, lastLogin, issued>>
    /\ StepFrame

LoginBegin(s, body) ==
    /\ Ready(s)
    /\ request' = [request EXCEPT ![s] = RequestWith("login", NoHeader, body)]
    /\ IF body = BadBody
       THEN Finish(s, MessageResp("login", 400, "Invalid request body"))
       ELSE IF body.username = "" \/ body.password = <<>>
       THEN Finish(s, MessageResp("login", 400,
                                  "Username and password are required"))
       ELSE Continue(s, Work("login", body, "lookup"))
    /\ UNCHANGED <<users, entries, passwords, checkpoints, adminFaults, now,
                   push, watermark, received, lastLogin, issued,
                   limiterVars>>

LoginStep(s) ==
    /\ inflight[s].pc # "idle"
    /\ inflight[s].kind = "login"
    /\ LET r == inflight[s]
           body == r.body
       IN  CASE r.pc = "lookup" ->
                /\ LET user == GetUserByUsername(body.username) IN
                    IF user = NoUser
                    THEN Finish(s, LoginFailure("user not found"))
                    ELSE Continue(s, [r EXCEPT !.pc = "hash", !.user = user])
                /\ UNCHANGED <<users, lastLogin, issued>>
             [] r.pc = "hash" ->
                /\ LET hash == GetPasswordHash(r.user.user_id) IN
                    IF hash = NoPassword
                    THEN Finish(s, LoginFailure("password hash not found"))
                    ELSE IF ~CheckPassword(body.password, hash.password_hash)
                    THEN Finish(s, LoginFailure("invalid password"))
                    ELSE Continue(s, [r EXCEPT !.pc = "update"])
                /\ UNCHANGED <<users, lastLogin, issued>>
             [] r.pc = "update" ->
                \* user.LastLogin = time.Now(); db.UpdateUser(user): the
                \* document read at "lookup" is written back whole.
                /\ users' = SetUser(users, r.user)
                /\ lastLogin' = [lastLogin EXCEPT ![r.user.user_id] = now]
                /\ issued' = issued \cup {GenerateRefreshToken(r.user)}
                /\ Finish(s, [kind |-> "login", status |-> 200,
                              body |-> [token |-> GenerateToken(r.user),
                                        refresh_token |->
                                            GenerateRefreshToken(r.user),
                                        user |-> r.user]])
    /\ UNCHANGED passwords
    /\ StepFrame

---------------------------------------------------------------------------
(* middleware: RateLimiter.  A request passes GetLimiter (lock, look the   *)
(* identifier up, create and store a limiter if there is none, unlock) and *)
(* then calls Allow on the limiter it was given.  The cleaner goroutine    *)
(* replaces the map by an empty one under the same lock.                   *)

ClientIPs == {"10.0.0.1", "10.0.0.2"}

\* The requests in flight at the same time, and the cleaner goroutine.
Calls == {1, 2}
Cleaner == 0

\* Addresses of limiter objects: one per map entry and one per reference
\* held by a request.
LimiterRefs == 1..(Cardinality(ClientIPs) + Cardinality(Calls))

NoLimiter == 0
NoBucket == [tokens |-> -1, taken |-> FALSE]

\* rate.NewLimiter(rate, burst): the bucket starts full.  `taken` records
\* whether Allow has been called on the limiter.
NewLimiter == [tokens |-> Requests, taken |-> FALSE]

NoCall == [pc |-> "idle"]

\* The smallest address not in use.
NewRef ==
    CHOOSE r \in LimiterRefs :
        /\ tokens[r] = NoBucket
        /\ \A q \in LimiterRefs : tokens[q] = NoBucket => r <= q

\* The limiter objects still reachable from the map or from a request.
Reachable(lim, cs, tok) ==
    [r \in LimiterRefs |->
        IF \/ \E ip \in ClientIPs : lim[ip] = r
           \/ \E p \in Calls : cs[p].pc # "idle" /\ cs[p].limiter = r
        THEN tok[r] ELSE NoBucket]

\* Faulty variant of the lock: it is granted whoever holds it.
CanLockAlways == TRUE

\* sync.Mutex.Lock returns when nobody holds the mutex.
CanLock == mu = {}

\* Faulty variant of the cleanup: the map is kept.
ClearedKeepsAll(lim) == lim

\* make(map[string]*rate.Limiter)
Cleared(lim) == [ip \in ClientIPs |-> NoLimiter]

\* Middleware: the request arrives from ip; GetLimiter: rl.mu.Lock().
GetLimiterLock(p, ip) ==
    /\ calls[p].pc = "idle"
    /\ CanLock
    /\ mu' = mu \cup {p}
    /\ calls' = [calls EXCEPT ![p] =
            [pc |-> "lookup", ip |-> ip, limiter |-> NoLimiter,
             clearedAt |-> "", status |-> 0]]
    /\ UNCHANGED <<limiters, tokens>>
    /\ UNCHANGED handlerVars

\* limiter, exists := rl.limiters[ip]
GetLimiterLookup(p) ==
    /\ calls[p].pc = "lookup"
    /\ LET limiter == limiters[calls[p].ip] IN
        calls' = [calls EXCEPT ![p] =
            IF limiter # NoLimiter
            THEN [@ EXCEPT !.pc = "unlock", !.limiter = limiter]
            ELSE [@ EXCEPT !.pc = "create"]]
    /\ UNCHANGED <<limiters, tokens, mu>>
    /\ UNCHANGED handlerVars

\* limiter = rate.NewLimiter(...); rl.limiters[ip] = limiter
GetLimiterCreate(p) ==
    /\ calls[p].pc = "create"
    /\ LET r == NewRef
           lim == [limiters EXCEPT ![calls[p].ip] = r]
           cs == [calls EXCEPT ![p] = [@ EXCEPT !.pc = "unlock",
                                                !.limiter = r]]
       IN  /\ limiters' = lim
           /\ calls' = cs
           /\ tokens' = Reachable(lim, cs, [tokens EXCEPT ![r] = NewLimiter])
    /\ UNCHANGED mu
    /\ UNCHANGED handlerVars

\* defer rl.mu.Unlock(); return limiter
GetLimiterUnlock(p) ==
    /\ calls[p].pc = "unlock"
    /\ mu' = mu \ {p}
    /\ calls' = [calls EXCEPT ![p] = [@ EXCEPT !.pc = "allow"]]
    /\ UNCHANGED <<limiters, tokens>>
    /\ UNCHANGED handlerVars

\* limiter.Allow(): takes a token if the bucket holds one; the request
\* goes on to the next handler (200) or is answered 429.
Allow(p) ==
    /\ calls[p].pc = "allow"
    /\ LET r == calls[p].limiter IN
        /\ tokens' = [tokens EXCEPT ![r] =
                [tokens |-> IF @.tokens > 0 THEN @.tokens - 1 ELSE 0,
                 taken |-> TRUE]]
        /\ calls' = [calls EXCEPT ![p] =
                [@ EXCEPT !.pc = "done",
                          !.status = IF tokens[r].tokens > 0 THEN 200
                                     ELSE 429]]
    /\ UNCHANGED <<limiters, mu>>
    /\ UNCHANGED handlerVars

\* The response is written; the request's reference to the limiter is
\* dropped.
Respond(p) ==
    /\ calls[p].pc = "done"
    /\ LET cs == [calls EXCEPT ![p] = NoCall] IN
        /\ calls' = cs
        /\ tokens' = Reachable(limiters, cs, tokens)
    /\ UNCHANGED <<limiters, mu>>
    /\ UNCHANGED handlerVars

\* Time passes: a limiter regains tokens at its rate, up to the burst.
Refill ==
    /\ \E r \in LimiterRefs :
            tokens[r] # NoBucket /\ tokens[r].tokens < Requests
    /\ tokens' = [r \in LimiterRefs |->
            IF tokens[r] # NoBucket /\ tokens[r].tokens < Requests
            THEN [tokens[r] EXCEPT !.tokens = @ + 1] ELSE tokens[r]]
    /\ UNCHANGED <<limiters, mu, calls>>
    /\ UNCHANGED handlerVars

\* CleanupOldLimiters: the ticker fires; rl.mu.Lock()
CleanupLock ==
    /\ calls[Cleaner].pc = "idle"
    /\ CanLock
    /\ mu' = mu \cup {Cleaner}
    /\ calls' = [calls EXCEPT ![Cleaner] = [pc |-> "clear"]]
    /\ UNCHANGED <<limiters, tokens>>
    /\ UNCHANGED handlerVars

\* rl.limiters = make(map[string]*rate.Limiter).  A request that was
\* given its limiter before records where it was when the map was cleared.
CleanupClear ==
    /\ calls[Cleaner].pc = "clear"
    /\ LET lim == Cleared(limiters)
           cs == [p \in Calls \cup {Cleaner} |->
                    IF p = Cleaner THEN [pc |-> "unlock"]
                    ELSE IF calls[p].pc = "idle" THEN calls[p]
                    ELSE IF calls[p].limiter # NoLimiter
                        THEN [calls[p] EXCEPT !.clearedAt = calls[p].pc]
                    ELSE calls[p]]
       IN  /\ limiters' = lim
           /\ calls' = cs
           /\ tokens' = Reachable(lim, cs, tokens)
    /\ UNCHANGED mu
    /\ UNCHANGED handlerVars

\* rl.mu.Unlock()
CleanupUnlock ==
    /\ calls[Cleaner].pc = "unlock"
    /\ mu' = mu \ {Cleaner}
    /\ calls' = [calls EXCEPT ![Cleaner] = NoCall]
    /\ UNCHANGED <<limiters, tokens>>
    /\ UNCHANGED handlerVars

---------------------------------------------------------------------------
(* The authorization model: requests served one at a time over the seeded  *)
(* users; clients leave the server-controlled timestamps unset.            *)

EmptyStore == [r \in RecordIDSet |-> NoEntry]

Init ==
    /\ users = SeedUsers
    /\ entries = EmptyStore
    /\ passwords = SeedPasswords
    /\ checkpoints = SeedCheckpoints
    /\ adminFaults = FALSE
    /\ now = 0
    /\ push = [s \in Slots |-> Idle]
    /\ inflight = [s \in Slots |-> Idle]
    /\ request = [s \in Slots |-> NoRequest]
    /\ resp = [s \in Slots |-> NoResp]
    /\ watermark = NoSince
    /\ received = EmptyStore
    /\ lastLogin = [u \in DocIDs |-> 0]
    /\ issued = {}
    /\ limiters = [ip \in ClientIPs |-> NoLimiter]
    /\ tokens = [r \in LimiterRefs |-> NoBucket]
    /\ mu = {}
    /\ calls = [p \in Calls \cup {Cleaner} |-> NoCall]

SinceParams == {NoSince, BadSince} \cup {Since(t) : t \in Times}

Next ==
    \/ \E s \in SeqSlots, uid \in Pushers :
            \E b \in Batches(ClientEntries(uid), MaxBatch) :
                PushBegin(s, Bearer(AccessToken(uid)), b)
    \/ \E s \in SeqSlots, ok \in BOOLEAN : PushEntry(s, ok)
    \/ \E s \in SeqSlots : PushEnd(s)
    \/ \E s \in SeqSlots, uid \in UserIDs, since \in SinceParams,
           ok \in BOOLEAN :
            Pull(s, Bearer(AccessToken(uid)), since, ok)
    \/ \E s \in SeqSlots, uid \in UserIDs, ok \in BOOLEAN :
            GetEntries(s, Bearer(AccessToken(uid)), ok)
    \/ \E s \in SeqSlots, uid \in UserIDs, ok \in BOOLEAN :
            ExportEntries(s, Bearer(AccessToken(uid)), ok)
    \/ \E s \in SeqSlots : Deliver(s)

Spec == Init /\ [][Next]_vars

---------------------------------------------------------------------------
(* The delta-sync model: operators push entries carrying any timestamps,   *)
(* the server clock advances, users pull with any `since`, and one client  *)
(* (the supervisor's device) pulls with its watermark: the greatest        *)
(* updated_at among the entries it has received so far.                    *)

DeltaClient == SupJohn

Tick ==
    /\ now < MaxTime
    /\ now' = now + 1
    /\ UNCHANGED <<inflight, lastLogin, issued, limiterVars>>
    /\ UNCHANGED <<users, entries, passwords, checkpoints, adminFaults, push,
                   request, resp, watermark, received>>

ForClient(s) ==
    /\ Answered(s, "pull")
    /\ resp[s].user.user_id = DeltaClient

Max(S) == CHOOSE m \in S : \A x \in S : x <= m

\* The client takes the entries of the response into its copy and moves
\* its watermark.
ClientReceive(s) ==
    /\ ForClient(s)
    /\ LET got == resp[s].entries
           seen == {got[i].updated_at : i \in 1..Len(got)}
                     \cup (IF watermark = NoSince THEN {} ELSE {watermark.t})
       IN  /\ received' =
                 [r \in RecordIDSet |->
                    IF \E i \in 1..Len(got) : got[i].record_id = r
                    THEN got[CHOOSE i \in 1..Len(got) : got[i].record_id = r]
                    ELSE received[r]]
           /\ watermark' = IF seen = {} THEN NoSince ELSE Since(Max(seen))
    /\ resp' = [resp EXCEPT ![s] = NoResp]
    /\ request' = [request EXCEPT ![s] = NoRequest]
    /\ UNCHANGED <<inflight, lastLogin, issued, limiterVars>>
    /\ UNCHANGED <<users, entries, passwords, checkpoints, adminFaults, now,
                   push>>

InitDelta == Init

NextDelta ==
    \/ Tick
    \/ \E s \in SeqSlots, uid \in DeltaPushers :
            \E b \in Batches(DeltaEntries(uid), MaxDeltaBatch) :
                PushBegin(s, Bearer(AccessToken(uid)), b)
    \/ \E s \in SeqSlots, ok \in BOOLEAN : PushEntry(s, ok)
    \/ \E s \in SeqSlots : PushEnd(s)
    \/ \E s \in SeqSlots, uid \in DeltaPullers,
           since \in SinceParams, ok \in BOOLEAN :
            Pull(s, Bearer(AccessToken(uid)), since, ok)
    \/ \E s \in SeqSlots, ok \in BOOLEAN : 
            Pull(s, Bearer(AccessToken(DeltaClient)), watermark, ok)
    \/ \E s \in SeqSlots : ~ForClient(s) /\ Deliver(s)
    \/ \E s \in SeqSlots : ClientReceive(s)

SpecDelta == InitDelta /\ [][NextDelta]_vars

---------------------------------------------------------------------------
(* The concurrent model: two connections served at the same time, each     *)
(* pushing versions of the same record that differ in payload and in the   *)
(* client_timestamp they carry.  Each store write is one Firestore Set.    *)

ConcPushers == {OpEast, SupJohn}

ConcEntries(uid) ==
    {[Entry(RecordIDs[1], CpEast, uid, 0, 0, p) EXCEPT !.client_ts = t] :
        p \in {"p", "q"}, t \in Times}

NextConc ==
    \/ \E s \in Slots, uid \in ConcPushers :
            \E b \in Batches(ConcEntries(uid), MaxConcBatch) :
                PushBegin(s, Bearer(AccessToken(uid)), b)
    \/ \E s \in Slots, ok \in BOOLEAN : PushEntry(s, ok)
    \/ \E s \in Slots : PushEnd(s)
    \/ \E s \in Slots : Deliver(s)

SpecConc == Init /\ [][NextConc]_vars

---------------------------------------------------------------------------
(* The batch model: one operator pushes batches, one request at a time;    *)
(* a batch may name a record id twice, hold entries that are rejected, and *)
(* any store write may fail; the caller may give up during the request.    *)

BatchPusher == OpEast

BatchEntries ==
    {Entry(rid, CpEast, BatchPusher, 0, 0, p) :
        rid \in RecordIDSet, p \in {"p", "q"}}
    \cup {Entry(RecordIDs[1], CpWest, BatchPusher, 0, 0, "p"),
          Entry(RecordIDs[2], CpEast, OpWest, 0, 0, "p")}

NextBatch ==
    \/ \E s \in SeqSlots, b \in Batches(BatchEntries, MaxBatch) :
            PushBegin(s, Bearer(AccessToken(BatchPusher)), b)
    \/ \E s \in SeqSlots, ok \in BOOLEAN : PushEntry(s, ok)
    \/ \E s \in SeqSlots : PushEnd(s)
    \/ \E s \in SeqSlots : Abandon(s)
    \/ \E s \in SeqSlots : Deliver(s)

SpecBatch == Init /\ [][NextBatch]_vars

---------------------------------------------------------------------------
(* The administration model: the administrator's user-management requests  *)
(* served one at a time, each with at most one failing store operation.    *)

CreateUserBodies ==
    {BadBody} \cup
    {[username |-> n, password |-> pw, role |-> r,
      allowed_checkpoints |-> <<>>, supervisor_id |-> sup] :
        n \in {"", "gone"},
        pw \in {<<>>, WeakPassword, StrongPassword},
        r \in {RoleGateOperator, RoleSupervisor},
        sup \in {"", SupJohn}}

UpdateUserBodies ==
    {BadBody} \cup
    {[user_id |-> u, role |-> r, allowed_checkpoints |-> NilList,
      supervisor_id |-> sup] :
        u \in {"", OpEast, SupJohn, Gone},
        r \in {"", RoleSupervisor},
        sup \in {"", SupMary}}

DeleteUserBodies ==
    {BadBody} \cup {[user_id |-> u] : u \in {"", Admin, SupJohn, OpEast, Gone}}

CreateUserOps == {"lookup", "create", "hash", "password", "getsup", "updsup"}
UpdateUserOps == {"get", "update", "getold", "updold", "getnew", "updnew"}
DeleteUserOps == {"get", "getsup", "updsup", "delete"}

FaultSets(ops) == {{}} \cup {{o} : o \in ops}

NextAdmin ==
    \/ \E s \in SeqSlots, body \in CreateUserBodies,
           F \in FaultSets(CreateUserOps) :
            CreateUser(s, Bearer(AccessToken(Admin)), body, F)
    \/ \E s \in SeqSlots, body \in UpdateUserBodies,
           F \in FaultSets(UpdateUserOps) :
            UpdateUser(s, Bearer(AccessToken(Admin)), body, F)
    \/ \E s \in SeqSlots, body \in DeleteUserBodies,
           F \in FaultSets(DeleteUserOps) :
            DeleteUser(s, Bearer(AccessToken(Admin)), body, F)
    \/ \E s \in SeqSlots : Deliver(s)

SpecAdmin == Init /\ [][NextAdmin]_vars

---------------------------------------------------------------------------
(* The access model: every protected route, requested with every kind of   *)
(* Authorization header: none, malformed, a token whose signature does not *)
(* verify, an expired token, the token of a deleted user, and valid tokens *)
(* of users of each role.                                                  *)

ForgedToken(uid) == Token(uid, FALSE, MaxTime)
ExpiredToken(uid) == Token(uid, TRUE, now - 1)

AuthHeaders ==
    {NoHeader, Malformed,
     Bearer(ForgedToken(Admin)), Bearer(ExpiredToken(Admin)),
     Bearer(ForgedToken(OpEast))}
    \cup {Bearer(AccessToken(u)) : u \in {Admin, SupJohn, OpEast, Guest, Gone}}

\* The empty batch, a new entry, and the same entry marked deleted by its
\* author (the soft delete).
AuthBatches ==
    {<<>>, <<Entry(RecordIDs[1], CpEast, OpEast, 0, 0, "p")>>,
     <<[Entry(RecordIDs[1], CpEast, OpEast, 0, 0, "p")
            EXCEPT !.status = StatusDeleted]>>}

AuthCreateUserBody ==
    [username |-> "gone", password |-> StrongPassword,
     role |-> RoleGateOperator, allowed_checkpoints |-> <<CpWest>>,
     supervisor_id |-> ""]

AuthUpdateUserBody ==
    [user_id |-> OpWest, role |-> "", allowed_checkpoints |-> List(<<CpEast>>),
     supervisor_id |-> ""]

AuthDeleteUserBody == [user_id |-> OpNorth]

AuthCheckpointBody == Checkpoint(CpNew, "New Gate", "Sector 5")

AuthResetBody == [user_id |-> OpEast, new_password |-> StrongPassword]

NextAuth ==
    \/ \E s \in SeqSlots, hdr \in AuthHeaders, b \in AuthBatches :
            PushBegin(s, hdr, b)
    \/ \E s \in SeqSlots, ok \in BOOLEAN : PushEntry(s, ok)
    \/ \E s \in SeqSlots : PushEnd(s)
    \/ \E s \in SeqSlots, hdr \in AuthHeaders : Pull(s, hdr, NoSince, TRUE)
    \/ \E s \in SeqSlots, hdr \in AuthHeaders : GetEntries(s, hdr, TRUE)
    \/ \E s \in SeqSlots, hdr \in AuthHeaders : ExportEntries(s, hdr, TRUE)
    \/ \E s \in SeqSlots, hdr \in AuthHeaders :
            ResetPassword(s, hdr, AuthResetBody, {})
    \/ \E s \in SeqSlots, hdr \in AuthHeaders : GetUsers(s, hdr, TRUE)
    \/ \E s \in SeqSlots, hdr \in AuthHeaders : GetCheckpoints(s, hdr, TRUE)
    \/ \E s \in SeqSlots, hdr \in AuthHeaders :
            CreateUser(s, hdr, AuthCreateUserBody, {})
    \/ \E s \in SeqSlots, hdr \in AuthHeaders :
            UpdateUser(s, hdr, AuthUpdateUserBody, {})
    \/ \E s \in SeqSlots, hdr \in AuthHeaders :
            DeleteUser(s, hdr, AuthDeleteUserBody, {})
    \/ \E s \in SeqSlots, hdr \in AuthHeaders, ok \in BOOLEAN :
            CreateCheckpoint(s, hdr, AuthCheckpointBody, ok)
    \/ \E s \in SeqSlots : Deliver(s)

SpecAuth == Init /\ [][NextAuth]_vars

---------------------------------------------------------------------------
(* The password-reset model: the administrator's user-management requests  *)
(* (no store operation failing) and password resets requested by users of  *)
(* each role, served one at a time.                                        *)

ResetCallers == {Admin, SupJohn, SupMary, OpEast}

ResetBodies ==
    {BadBody} \cup
    {[user_id |-> u, new_password |-> pw] :
        u \in {"", SupJohn, OpEast, Gone},
        pw \in {<<>>, StrongPassword} \cup WeakPasswords}

ResetPasswordOps == {"get", "hash", "password"}

ResetCreateUserBodies ==
    {[username |-> "gone", password |-> pw, role |-> RoleGateOperator,
      allowed_checkpoints |-> <<>>, supervisor_id |-> SupJohn] :
        pw \in {StrongPassword} \cup WeakPasswords}

ResetUpdateUserBodies ==
    {[user_id |-> u, role |-> r, allowed_checkpoints |-> NilList,
      supervisor_id |-> sup] :
        u \in {OpEast, SupJohn},
        r \in {"", RoleSupervisor},
        sup \in {"", SupJohn, SupMary}}

ResetDeleteUserBodies == {[user_id |-> u] : u \in {OpEast, Gone}}

NextReset ==
    \/ \E s \in SeqSlots, body \in ResetCreateUserBodies :
            CreateUser(s, Bearer(AccessToken(Admin)), body, {})
    \/ \E s \in SeqSlots, body \in ResetUpdateUserBodies :
            UpdateUser(s, Bearer(AccessToken(Admin)), body, {})
    \/ \E s \in SeqSlots, body \in ResetDeleteUserBodies :
            DeleteUser(s, Bearer(AccessToken(Admin)), body, {})
    \/ \E s \in SeqSlots, u \in ResetCallers, body \in ResetBodies,
           F \in FaultSets(ResetPasswordOps) :
            ResetPassword(s, Bearer(AccessToken(u)), body, F)
    \/ \E s \in SeqSlots : Deliver(s)

SpecReset == Init /\ [][NextReset]_vars

---------------------------------------------------------------------------
(* The account-creation model: the administrator creates users whose       *)
(* usernames are new, are taken, or yield the document id of another       *)
(* user, and updates and deletes users; each request with at most one      *)
(* failing store operation.                                                *)

AdminHeader == Bearer(AccessToken(Admin))

CreateBodies ==
    {[username |-> n, password |-> StrongPassword, role |-> r,
      allowed_checkpoints |-> <<>>, supervisor_id |-> sup] :
        n \in {"gone", "op-east", "op_east"},
        r \in {RoleGateOperator, RoleSupervisor},
        sup \in {"", SupJohn}}

UpdateBodies ==
    {[user_id |-> u, role |-> r, allowed_checkpoints |-> NilList,
      supervisor_id |-> ""] :
        u \in {OpEast, Gone}, r \in {"", RoleSupervisor}}

DeleteBodies == {[user_id |-> Gone]}

NextCreate ==
    \/ \E s \in SeqSlots, body \in CreateBodies,
           F \in FaultSets(CreateUserOps) :
            CreateUser(s, AdminHeader, body, F)
    \/ \E s \in SeqSlots, body \in UpdateBodies,
           F \in FaultSets(UpdateUserOps) :
            UpdateUser(s, AdminHeader, body, F)
    \/ \E s \in SeqSlots, body \in DeleteBodies :
            DeleteUser(s, AdminHeader, body, {})
    \/ \E s \in SeqSlots : Deliver(s)

SpecCreate == Init /\ [][NextCreate]_vars

---------------------------------------------------------------------------
(* The session model: logins with right and wrong credentials, refreshes   *)
(* with the tokens the logins returned and with forged ones, while the     *)
(* administrator changes a user's role, deletes a user and creates one     *)
(* whose credential is not stored, and the clock advances.                 *)

LoginBodies ==
    {BadBody} \cup
    {[username |-> n, password |-> pw] :
        n \in {"", "op_east", "gone", "nobody"},
        pw \in {<<>>, SeedPassword, StrongPassword}}

RefreshBodies ==
    {NoTokenBody} \cup {TokenBody(t) : t \in issued}
    \cup {TokenBody([t EXCEPT !.signed = FALSE]) : t \in issued}

SessionCreateBody ==
    [username |-> "gone", password |-> StrongPassword,
     role |-> RoleGateOperator, allowed_checkpoints |-> <<>>,
     supervisor_id |-> ""]

SessionUpdateBody ==
    [user_id |-> OpEast, role |-> RoleSupervisor,
     allowed_checkpoints |-> NilList, supervisor_id |-> ""]

SessionDeleteBody == [user_id |-> OpEast]

NextSession ==
    \/ \E s \in SeqSlots, body \in LoginBodies, F \in FaultSets(LoginOps) :
            Login(s, body, F)
    \/ \E s \in SeqSlots, body \in RefreshBodies,
           F \in FaultSets(RefreshOps) :
            RefreshToken(s, body, F)
    \/ \E s \in SeqSlots, F \in {{}, {"password"}} :
            CreateUser(s, AdminHeader, SessionCreateBody, F)
    \/ \E s \in SeqSlots : UpdateUser(s, AdminHeader, SessionUpdateBody, {})
    \/ \E s \in SeqSlots : DeleteUser(s, AdminHeader, SessionDeleteBody, {})
    \/ Tick
    \/ \E s \in SeqSlots : Deliver(s)

SpecSession == Init /\ [][NextSession]_vars

---------------------------------------------------------------------------
(* The bearer model: users log in, and the tokens a login returned (the    *)
(* access token and the refresh token) are presented in the Authorization  *)
(* header of sync, admin and supervisor requests while the clock advances. *)

BearerLoginBodies ==
    {[username |-> n, password |-> SeedPassword] :
        n \in {"admin", "supervisor_john"}}

\* The access token a login returned together with refresh token t.
AccessTokenOf(t) ==
    [t EXCEPT !.expires_at = t.issued_at + TokenExpiration]

BearerHeaders ==
    {Bearer(t) : t \in issued} \cup {Bearer(AccessTokenOf(t)) : t \in issued}

NextBearer ==
    \/ \E s \in SeqSlots, body \in BearerLoginBodies : Login(s, body, {})
    \/ \E s \in SeqSlots, hdr \in BearerHeaders : Pull(s, hdr, NoSince, TRUE)
    \/ \E s \in SeqSlots, hdr \in BearerHeaders : GetUsers(s, hdr, TRUE)
    \/ \E s \in SeqSlots, hdr \in BearerHeaders : GetEntries(s, hdr, TRUE)
    \/ Tick
    \/ \E s \in SeqSlots : Deliver(s)

SpecBearer == Init /\ [][NextBearer]_vars

---------------------------------------------------------------------------
(* The live-record model: the administrator, a supervisor and an operator  *)
(* each hold a token that stays valid, and use it on sync, supervisor and  *)
(* admin routes while admin requests demote the administrator, take the    *)
(* operator's checkpoint away, move the operator to another supervisor and *)
(* delete the operator.  Requests are served one at a time.                *)

LiveHeaders == {Bearer(AccessToken(u)) : u \in {Admin, SupJohn, OpEast}}

LiveBatch == <<Entry(RecordIDs[1], CpEast, OpEast, 0, 0, "p")>>

LiveUpdateBodies ==
    {[user_id |-> Admin, role |-> RoleSupervisor,
      allowed_checkpoints |-> NilList, supervisor_id |-> ""],
     [user_id |-> OpEast, role |-> "",
      allowed_checkpoints |-> List(<<CpWest>>), supervisor_id |-> SupJohn],
     [user_id |-> OpEast, role |-> "",
      allowed_checkpoints |-> NilList, supervisor_id |-> SupMary]}

LiveDeleteBody == [user_id |-> OpEast]

NextLive ==
    \/ \E s \in SeqSlots, hdr \in LiveHeaders : PushBegin(s, hdr, LiveBatch)
    \/ \E s \in SeqSlots : PushEntry(s, TRUE)
    \/ \E s \in SeqSlots : PushEnd(s)
    \/ \E s \in SeqSlots, hdr \in LiveHeaders : Pull(s, hdr, NoSince, TRUE)
    \/ \E s \in SeqSlots, hdr \in LiveHeaders : GetEntries(s, hdr, TRUE)
    \/ \E s \in SeqSlots, hdr \in LiveHeaders : GetUsers(s, hdr, TRUE)
    \/ \E s \in SeqSlots, hdr \in LiveHeaders, body \in LiveUpdateBodies :
            UpdateUser(s, hdr, body, {})
    \/ \E s \in SeqSlots, hdr \in LiveHeaders :
            DeleteUser(s, hdr, LiveDeleteBody, {})
    \/ \E s \in SeqSlots : Deliver(s)

SpecLive == Init /\ [][NextLive]_vars

---------------------------------------------------------------------------
(* The concurrent administration model: two connections, each carrying an  *)
(* admin request or a login, served at the same time, their store          *)
(* operations interleaved in any order.                                    *)

RacePassword == <<"p", "a", "s", "s", "w", "0", "r", "d", "2">>

\* Two creations of the user "gone" that differ in role and password.
RaceCreateBodies ==
    {[username |-> "gone", password |-> StrongPassword,
      role |-> RoleGateOperator, allowed_checkpoints |-> <<>>,
      supervisor_id |-> SupJohn],
     [username |-> "gone", password |-> RacePassword,
      role |-> RoleSupervisor, allowed_checkpoints |-> <<>>,
      supervisor_id |-> ""]}

\* op-west is given the supervisor john; john is given another checkpoint.
RaceUpdateBodies ==
    {[user_id |-> OpWest, role |-> "", allowed_checkpoints |-> NilList,
      supervisor_id |-> SupJohn],
     [user_id |-> SupJohn, role |-> "",
      allowed_checkpoints |-> List(<<CpWest>>), supervisor_id |-> ""]}

RaceDeleteBody == [user_id |-> OpEast]

RaceLoginBody == [username |-> "supervisor_john", password |-> SeedPassword]

NextRace ==
    \/ \E s \in Slots, body \in RaceCreateBodies :
            CreateUserBegin(s, AdminHeader, body)
    \/ \E s \in Slots : CreateUserStep(s)
    \/ \E s \in Slots, body \in RaceUpdateBodies :
            UpdateUserBegin(s, AdminHeader, body)
    \/ \E s \in Slots : UpdateUserStep(s)
    \/ \E s \in Slots : DeleteUserBegin(s, AdminHeader, RaceDeleteBody)
    \/ \E s \in Slots : DeleteUserStep(s)
    \/ \E s \in Slots : LoginBegin(s, RaceLoginBody)
    \/ \E s \in Slots : LoginStep(s)
    \/ \E s \in Slots : Deliver(s)

SpecRace == Init /\ [][NextRace]_vars

---------------------------------------------------------------------------
(* The rate-limiter model: concurrent requests from two client             *)
(* identifiers pass the limiter while the cleaner clears the map and time  *)
(* refills the buckets.                                                    *)

NextLimiter ==
    \/ \E p \in Calls, ip \in ClientIPs : GetLimiterLock(p, ip)
    \/ \E p \in Calls : GetLimiterLookup(p)
    \/ \E p \in Calls : GetLimiterCreate(p)
    \/ \E p \in Calls : GetLimiterUnlock(p)
    \/ \E p \in Calls : Allow(p)
    \/ \E p \in Calls : Respond(p)
    \/ Refill
    \/ CleanupLock
    \/ CleanupClear
    \/ CleanupUnlock

SpecLimiter == Init /\ [][NextLimiter]_vars

---------------------------------------------------------------------------
(* Properties of the visibility filter (checked under Spec) *)

Stored == {entries[r] : r \in {x \in RecordIDSet : entries[x] # NoEntry}}

AuthoredBy(ids) == {e \in Stored : e.logging_user_id \in ids}

NoDuplicates(es) == \A i, j \in 1..Len(es) : es[i] = es[j] => i = j

\* C1: a pull answered to a GateOperator holds only entries the operator
\* authored, and without `since` it holds every stored entry the operator
\* authored, each once.
C1_OperatorSeesExactlyOwn ==
    \A s \in Slots :
        (Answered(s, "pull") /\ resp[s].user.role = RoleGateOperator) =>
            /\ Range(resp[s].entries) \subseteq AuthoredBy({resp[s].user.user_id})
            /\ resp[s].since = NoSince =>
                    /\ Range(resp[s].entries) = AuthoredBy({resp[s].user.user_id})
                    /\ NoDuplicates(resp[s].entries)
                    /\ resp[s].count = Len(resp[s].entries)

C1_Witness ==
    \E s \in Slots :
        /\ Answered(s, "pull")
        /\ resp[s].user.role = RoleGateOperator
        /\ resp[s].since = NoSince
        /\ resp[s].entries # <<>>
        /\ Stored # AuthoredBy({resp[s].user.user_id})

\* C2: pull, the supervisor's entry list and the CSV export answered to a
\* Supervisor hold exactly the stored entries authored by the operators in
\* the supervisor's managed_operators as read for the request (with `since`:
\* only such entries); with no managed operators they hold nothing.
C2_SupervisorSeesExactlyManaged ==
    \A s \in Slots :
        LET q == resp[s]
            managed == AuthoredBy(Range(q.user.managed_operators))
        IN  /\ (Answered(s, "pull") /\ q.user.role = RoleSupervisor) =>
                /\ Range(q.entries) \subseteq managed
                /\ q.since = NoSince => Range(q.entries) = managed
                /\ q.user.managed_operators = <<>> => q.entries = <<>>
            /\ (Answered(s, "entries") /\ q.user.role = RoleSupervisor) =>
                /\ Range(q.entries) = managed
                /\ NoDuplicates(q.entries)
                /\ q.user.managed_operators = <<>> => q.entries = <<>>
            /\ (Answered(s, "export") /\ q.user.role = RoleSupervisor) =>
                /\ q.rows[1] = CsvHeader
                /\ Range(Tail(q.rows)) = {CsvRow(e) : e \in managed}
                /\ Len(q.rows) = 1 + Cardinality(managed)
                /\ q.user.managed_operators = <<>> => q.rows = <<CsvHeader>>

C2_Witness ==
    \E s \in Slots :
        /\ Answered(s, "entries")
        /\ resp[s].user.user_id = SupJohn
        /\ resp[s].user.managed_operators = <<OpEast>>
        /\ AuthoredBy({OpEast}) # {}
        /\ AuthoredBy({OpWest}) # {}
        /\ Range(resp[s].entries) = AuthoredBy({OpEast})

Roles == {RoleAdmin, RoleSupervisor, RoleGateOperator}

\* C3: a pull answered to a user whose stored role is none of the three
\* roles holds no entry, whatever the store holds.
C3_UnknownRoleSeesNothing ==
    \A s \in Slots :
        (Answered(s, "pull") /\ resp[s].user.role \notin Roles) =>
            resp[s].entries = <<>> /\ resp[s].count = 0

C3_Witness ==
    \E s \in Slots :
        /\ Answered(s, "pull")
        /\ resp[s].user.role = ""
        /\ resp[s].since = NoSince
        /\ Stored # {}
        /\ resp[s].entries = <<>>

---------------------------------------------------------------------------
(* Properties of Push (checked under Spec) *)

\* A step of the loop of the push on connection s, and the entry it handles.
LoopStep(s) ==
    /\ push[s].pc = "loop"
    /\ push'[s].pc = "loop"
    /\ push'[s].i = push[s].i + 1

Current(s) == push[s].batch[push[s].i]

Rejects(s) ==
    /\ entries' = entries
    /\ push'[s].rejected = push[s].rejected + 1
    /\ push'[s].rejectedIDs = Append(push[s].rejectedIDs, Current(s).record_id)
    /\ push'[s].accepted = push[s].accepted

Accepts(s) ==
    /\ entries' = [entries EXCEPT ![Current(s).record_id] = Current(s)]
    /\ push'[s].accepted = push[s].accepted + 1
    /\ push'[s].rejected = push[s].rejected
    /\ push'[s].rejectedIDs = push[s].rejectedIDs

StoreWriteFailed(s) == push'[s].log[push[s].i] = "store_error"

\* C4: a loop step on an entry attributed to another user than the requester
\* leaves the store as it is and appends the record id to rejected_ids,
\* whatever the requester's role.
C4_ForeignEntryRejected ==
    [][\A s \in Slots :
        (LoopStep(s) /\ Current(s).logging_user_id # push[s].user.user_id)
            => Rejects(s)]_vars

C4_Witness ==
    \E s \in Slots :
        /\ push[s].pc = "loop"
        /\ push[s].user.role = RoleAdmin
        /\ push[s].i = 2
        /\ push[s].batch[1].logging_user_id # push[s].user.user_id
        /\ push[s].rejectedIDs = <<push[s].batch[1].record_id>>
        /\ entries[push[s].batch[1].record_id] # NoEntry

OwnEntryOfOperator(s) ==
    /\ LoopStep(s)
    /\ push[s].user.role = RoleGateOperator
    /\ Current(s).logging_user_id = push[s].user.user_id

\* C5 as claimed: an operator's own entry is rejected when its checkpoint is
\* outside the allowlist and accepted and persisted when it is inside.
C5_AllowlistDecides ==
    [][\A s \in Slots :
        OwnEntryOfOperator(s) =>
            IF HasAccess(push[s].user, Current(s)) THEN Accepts(s)
            ELSE Rejects(s)]_vars

\* C5 as amended: an operator's own entry is rejected when its checkpoint is
\* outside the allowlist; when it is inside, the entry is accepted and
\* persisted if its store write succeeds and rejected, unpersisted, if the
\* store write fails.
C5_AllowlistDecidesUnlessStoreFails ==
    [][\A s \in Slots :
        OwnEntryOfOperator(s) =>
            IF ~HasAccess(push[s].user, Current(s)) THEN Rejects(s)
            ELSE IF StoreWriteFailed(s) THEN Rejects(s)
            ELSE Accepts(s)]_vars

C5_Witness ==
    \E s \in Slots :
        /\ push[s].pc = "loop"
        /\ push[s].user.user_id = OpEast
        /\ push[s].i = 3
        /\ push[s].batch[1].checkpoint_id = CpEast
        /\ push[s].batch[2].checkpoint_id = CpWest
        /\ push[s].batch[2].logging_user_id = OpEast
        /\ push[s].accepted = 1
        /\ push[s].rejectedIDs = <<push[s].batch[2].record_id>>
        /\ entries[push[s].batch[1].record_id] = push[s].batch[1]

Authorized(user, e) ==
    /\ e.logging_user_id = user.user_id
    /\ user.role = RoleGateOperator => HasAccess(user, e)

\* C6: in every loop step the entry is persisted exactly when the requester
\* is authorized for it and its own store write succeeds, whatever happened
\* to the entries before it in the batch.
C6_PartialAcceptance ==
    [][\A s \in Slots :
        LoopStep(s) =>
            IF Authorized(push[s].user, Current(s)) /\ ~StoreWriteFailed(s)
            THEN Accepts(s)
            ELSE Rejects(s)]_vars

C6_Witness ==
    \E s \in Slots :
        /\ push[s].pc = "loop"
        /\ push[s].i = 3
        /\ push[s].log[1] # "accepted"
        /\ push[s].log[2] = "accepted"
        /\ push[s].batch[1].record_id # push[s].batch[2].record_id
        /\ entries[push[s].batch[1].record_id] = NoEntry
        /\ entries[push[s].batch[2].record_id] = push[s].batch[2]

\* The record ids of the batch entries that were not persisted, in order.
NotPersistedIDs(r) ==
    LET idx == SelectSeq([i \in 1..Len(r.batch) |-> i],
                         LAMBDA i : r.log[i] # "accepted")
    IN  [k \in 1..Len(idx) |-> r.batch[idx[k]].record_id]

\* C7: every loop step persists the entry or counts it rejected, and the
\* response of a push has accepted + rejected = submitted, rejected_ids the
\* ids of the entries not persisted in submission order, accepted the number
\* persisted, and success exactly when nothing was rejected.
C7_PushResponseCounts ==
    [][\A s \in Slots :
        /\ LoopStep(s) =>
              IF push'[s].log[push[s].i] = "accepted" THEN Accepts(s)
              ELSE Rejects(s)
        /\ (push[s].pc = "loop" /\ push'[s].pc = "idle") =>
              LET r == push[s]
                  q == resp'[s]
              IN  /\ q.kind = "push" /\ q.status = 200
                  /\ q.accepted + q.rejected = Len(r.batch)
                  /\ Len(q.rejected_ids) = q.rejected
                  /\ q.rejected_ids = NotPersistedIDs(r)
                  /\ q.accepted =
                        Cardinality({i \in 1..Len(r.batch) : r.log[i] = "accepted"})
                  /\ q.success <=> (q.rejected = 0)
                  /\ r.batch = <<>> => (q.success /\ q.accepted = 0)]_vars

C7_Witness ==
    \E s \in Slots :
        /\ Answered(s, "push")
        /\ resp[s].accepted = 1
        /\ resp[s].rejected = 1
        /\ ~resp[s].success

---------------------------------------------------------------------------
(* Properties of delta sync (checked under SpecDelta) *)

VisibleTo(user) == Range(filterEntriesByRole(GetAllEntries, user))

\* C8: a pull with since=T holds exactly the stored entries visible to the
\* requester whose updated_at is greater than T.
C8_PullSinceByUpdatedAt ==
    \A s \in Slots :
        (Answered(s, "pull") /\ resp[s].since.kind = "time") =>
            Range(resp[s].entries) =
                {e \in VisibleTo(resp[s].user) : e.updated_at > resp[s].since.t}

\* C9: the client that pulls with its watermark misses no change: when it
\* has taken in the response of a pull, its copy of every record visible to
\* it is the stored entry.  (The store does not change between the pull and
\* its delivery, `since` never decreases, and a stored entry changes only
\* by a push: an entry this pull did not return is returned by no later
\* pull either.)
C9_DeltaSyncComplete ==
    [][\A s \in Slots :
        (ForClient(s) /\ resp'[s] = NoResp) =>
            \A e \in VisibleTo(resp[s].user) : received'[e.record_id] = e]_vars

\* C10: an accepted entry is stored with updated_at set to the server's
\* time of the write, whatever timestamps the client supplied.
C10_ServerSetsUpdatedAt ==
    [][\A s \in Slots :
        (LoopStep(s) /\ push'[s].log[push[s].i] = "accepted") =>
            entries'[Current(s).record_id].updated_at = now]_vars

\* C11: the stored updated_at of a record never decreases: every step that
\* replaces a stored entry leaves its updated_at greater than or equal to
\* the value stored before.
C11_UpdatedAtNeverDecreases ==
    [][\A r \in RecordIDSet :
        (entries[r] # NoEntry /\ entries'[r] # NoEntry) =>
            entries'[r].updated_at >= entries[r].updated_at]_vars

---------------------------------------------------------------------------
(* Properties of the store write (checked under Spec) *)

AcceptedStep(s) == LoopStep(s) /\ push'[s].log[push[s].i] = "accepted"

\* C12: an accepted push of an entry that is already stored with identical
\* content leaves the store as it is, and the store holds one document per
\* record_id: the document under id r is the entry whose record_id is r.
C12_PushIdempotent ==
    [][\A s \in Slots :
        AcceptedStep(s) =>
            /\ entries[Current(s).record_id] = Current(s) => entries' = entries
            /\ \A r \in RecordIDSet :
                    entries'[r] # NoEntry => entries'[r].record_id = r
            /\ Len(Documents(entries')) =
                    Cardinality({e.record_id : e \in Range(Documents(entries'))})
       ]_vars

C12_Witness ==
    \E s \in Slots :
        /\ push[s].pc = "loop"
        /\ push[s].i = 3
        /\ push[s].batch[1] = push[s].batch[2]
        /\ push[s].log = <<"accepted", "accepted">>
        /\ Stored = {push[s].batch[1]}

---------------------------------------------------------------------------
(* Properties of concurrent pushes (checked under SpecConc) *)

\* C13: every accepted store write leaves the pushed entry, whole, as the
\* stored entry of its record_id, whatever was stored before and whatever
\* client_timestamp either carries, and the store changes by nothing else:
\* the stored entry is always the content of the write applied last.
C13_LastWriteWins ==
    [][/\ \A s \in Slots :
            AcceptedStep(s) =>
                entries' = [entries EXCEPT ![Current(s).record_id] = Current(s)]
       /\ entries' # entries => \E s \in Slots : AcceptedStep(s)]_vars

\* Two pushes in flight at once, both accepted for the same record: the one
\* stored carries the earlier client_timestamp and another payload.
C13_Witness ==
    /\ push["a"].pc = "loop" /\ push["b"].pc = "loop"
    /\ push["a"].log = <<"accepted">> /\ push["b"].log = <<"accepted">>
    /\ push["a"].batch[1].record_id = push["b"].batch[1].record_id
    /\ push["a"].batch[1].client_ts > push["b"].batch[1].client_ts
    /\ push["a"].batch[1].payload # push["b"].batch[1].payload
    /\ entries[push["b"].batch[1].record_id] = push["b"].batch[1]

---------------------------------------------------------------------------
(* Properties of the supervisor relationship (checked under SpecAdmin) *)

Existing == {u \in DocIDs : users[u] # NoUser}

Manages(sup, op) == op \in Range(users[sup].managed_operators)

\* C14: every stored GateOperator whose supervisor_id is set references a
\* stored user with role Supervisor whose managed_operators holds the
\* operator's user_id.
C14_NoOrphanedSupervisorRef ==
    \A op \in Existing :
        (users[op].role = RoleGateOperator /\ users[op].supervisor_id # "") =>
            /\ users[op].supervisor_id \in Existing
            /\ users[users[op].supervisor_id].role = RoleSupervisor
            /\ Manages(users[op].supervisor_id, op)

NoStaleBackReference ==
    \A sup \in Existing :
        users[sup].role = RoleSupervisor =>
            \A op \in Range(users[sup].managed_operators) :
                op \in Existing /\ users[op].supervisor_id = sup

DeletesSupervisor(sup) ==
    /\ sup \in Existing
    /\ users[sup].role = RoleSupervisor
    /\ users[sup].managed_operators # <<>>
    /\ users'[sup] = NoUser

\* After the step, sup is referenced neither by the operators it managed
\* nor (at minimum) by any managed_operators list.
Unlinked(sup) ==
    \/ \A op \in Range(users[sup].managed_operators) :
            users'[op] = NoUser \/ users'[op].supervisor_id # sup
    \/ \A u \in UserIDs :
            users'[u] # NoUser => sup \notin Range(users'[u].managed_operators)

C17_NoDuplicateManagedOperators ==
    \A u \in Existing : NoDuplicates(users[u].managed_operators)

C17_Witness ==
    /\ Len(users[SupMary].managed_operators) = 3
    /\ \E s \in Slots :
            resp[s].kind = "update_user" /\ resp[s].status = 200

\* C18: supervisor_id is set only on stored users with role GateOperator,
\* and managed_operators is non-empty only on stored users with role
\* Supervisor.
C18_RelationFieldsMatchRole ==
    \A u \in Existing :
        /\ users[u].supervisor_id # "" => users[u].role = RoleGateOperator
        /\ users[u].managed_operators # <<>> => users[u].role = RoleSupervisor

---------------------------------------------------------------------------
(* Properties of the middleware chain (checked under SpecAuth) *)

AdminMutations ==
    {"create_user", "update_user", "delete_user", "create_checkpoint"}

AdminRoutes == AdminMutations \cup {"users", "checkpoints"}
SupervisorRoutes == {"entries", "export", "reset_password"}
SyncRoutes == {"push", "pull"}

\* The step in which connection s is given a request, and that request.
Arrives(s) == request[s] = NoRequest /\ request'[s] # NoRequest

Arrived(s) == request'[s]

\* The stored user a header's token names, when the token is one the
\* server issued and has not expired.
BearerOf(hdr) ==
    IF /\ hdr.kind = "bearer"
       /\ hdr.token.signed
       /\ hdr.token.expires_at >= now
    THEN GetUserFrom(users, hdr.token.user_id)
    ELSE NoUser

\* The request is refused with the status and its handler does not run.
Refused(s, status) ==
    /\ resp'[s] # NoResp
    /\ resp'[s].status = status
    /\ push'[s] = Idle
    /\ UNCHANGED <<users, entries, passwords, checkpoints>>

\* C19: a request to create, update or delete a user or to create a
\* checkpoint, by an authenticated user whose stored role is not Admin, is
\* answered 403 and leaves the users, credentials and checkpoints stores
\* as they are.
C19_AdminOnly ==
    [][\A s \in Slots :
        (/\ Arrives(s)
         /\ Arrived(s).endpoint \in AdminMutations
         /\ BearerOf(Arrived(s).hdr) # NoUser
         /\ BearerOf(Arrived(s).hdr).role # RoleAdmin)
            => /\ resp'[s].status = 403
               /\ UNCHANGED <<users, passwords, checkpoints>>]_vars

C19_Witness ==
    \E s \in Slots :
        /\ request[s].endpoint = "create_user"
        /\ request[s].hdr = Bearer(AccessToken(SupJohn))
        /\ users[SupJohn].role = RoleSupervisor
        /\ resp[s] = ErrorResp("create_user", 403)
        /\ users[Gone] = NoUser

RolesAllowed(endpoint) ==
    IF endpoint \in AdminRoutes THEN AdminOnly
    ELSE IF endpoint \in SupervisorRoutes THEN SupervisorOrAdmin
    ELSE Roles \cup {""}

\* C20: on every protected route, a request without a header, with a
\* malformed header, with a token that does not verify or has expired, or
\* with the token of a user that is not stored, is answered 401 whatever
\* role the token names; a request with a valid token of a stored user
\* whose role the route does not allow is answered 403; in both cases the
\* handler does not run and the stores are unchanged.
C20_AuthenticationBeforeRole ==
    [][\A s \in Slots :
        (Arrives(s)
            /\ Arrived(s).endpoint \in AdminRoutes \cup SupervisorRoutes
                                                  \cup SyncRoutes) =>
            LET user == BearerOf(Arrived(s).hdr) IN
            /\ user = NoUser => Refused(s, 401)
            /\ (user # NoUser
                    /\ user.role \notin RolesAllowed(Arrived(s).endpoint))
                  => Refused(s, 403)]_vars

\* A token naming the administrator whose signature does not verify is
\* refused with 401 on an admin route.
C20_Witness ==
    \E s \in Slots :
        /\ request[s].endpoint = "delete_user"
        /\ request[s].hdr = Bearer(ForgedToken(Admin))
        /\ users[Admin].role = RoleAdmin
        /\ resp[s] = ErrorResp("delete_user", 401)
        /\ users[OpNorth] # NoUser

---------------------------------------------------------------------------
(* Properties of the password reset (checked under SpecReset) *)

\* The step in which connection s is given a password-reset request.
ResetArrives(s) == Arrives(s) /\ Arrived(s).endpoint = "reset_password"

\* The body passes the handler's validation.
WellFormedReset(body) ==
    /\ body # BadBody
    /\ body.user_id # ""
    /\ body.new_password # <<>>
    /\ ValidatePasswordStrength(body.new_password)

\* The response of the step is a success and the target's credential is
\* the digest of the new password.
ResetDone(s, body) ==
    /\ resp'[s].status = 200
    /\ passwords'[body.user_id].password_hash =
            HashPassword(body.new_password)

C22_NoSelfOrPeerReset ==
    [][\A s \in Slots :
        (ResetArrives(s) /\ BearerOf(Arrived(s).hdr) # NoUser
                         /\ Arrived(s).body # BadBody) =>
            LET caller == BearerOf(Arrived(s).hdr)
                target == GetUserFrom(users, Arrived(s).body.user_id)
            IN  (/\ caller.role = RoleSupervisor
                 /\ \/ Arrived(s).body.user_id = caller.user_id
                    \/ target # NoUser /\ target.role = RoleSupervisor)
                  => /\ resp'[s].status # 200
                     /\ passwords' = passwords]_vars

---------------------------------------------------------------------------
(* Properties of the admin handlers' validation (checked under SpecAdmin) *)

\* C23: a DeleteUser whose user_id is the requesting administrator's own
\* user_id is answered 400, whatever store operation would fail, and the
\* users and credentials stores (the requester's record and every
\* managed_operators list among them) are unchanged.
C23_NoSelfDeletion ==
    [][\A s \in Slots, u \in UserIDs, F \in FaultSets(DeleteUserOps) :
        (/\ users[u] # NoUser
         /\ users[u].role = RoleAdmin
         /\ DeleteUser(s, Bearer(AccessToken(u)), [user_id |-> u], F))
            => /\ resp'[s].status = 400
               /\ users' = users
               /\ passwords' = passwords]_vars

C23_Witness ==
    \E s \in Slots :
        /\ request[s].endpoint = "delete_user"
        /\ request[s].hdr = Bearer(AccessToken(Admin))
        /\ resp[s] = [kind |-> "delete_user", status |-> 400,
                      body |-> "Cannot delete your own account"]
        /\ users[Admin] # NoUser
        /\ users[Admin].role = RoleAdmin

---------------------------------------------------------------------------
(* Properties of the password policy (checked under SpecReset) *)

---------------------------------------------------------------------------
(* Properties of user identity (checked under SpecCreate) *)

\* The record b is the record a, but for its managed_operators.
SameButOperators(a, b) ==
    /\ b # NoUser
    /\ [b EXCEPT !.managed_operators = a.managed_operators] = a

\* C25: CreateUser, even when none of its store operations fails, leaves
\* every stored user record as it is (but for the managed_operators of
\* the new user's supervisor), so a create adds a user under a user_id
\* that was not stored or adds none; and after UpdateUser every stored
\* record is stored under its own user_id and was stored before.
C25_UserIdUniqueImmutable ==
    [][/\ \A s \in Slots, body \in CreateBodies :
            CreateUser(s, AdminHeader, body, {}) =>
                \A u \in Existing : SameButOperators(users[u], users'[u])
       /\ \A s \in Slots, body \in UpdateBodies,
             F \in FaultSets(UpdateUserOps) :
            UpdateUser(s, AdminHeader, body, F) =>
                \A u \in DocIDs :
                    users'[u] # NoUser =>
                        users'[u].user_id = u /\ users[u] # NoUser]_vars

UsernameTaken(username) ==
    \E u \in Existing : users[u].username = username

UniqueUsernames ==
    \A u, v \in Existing :
        u # v => users[u].username # users[v].username

\* C26: a CreateUser whose username belongs to a stored user is answered
\* 409 and leaves the users and credentials stores unchanged, and no step
\* leads to two stored users sharing a username.
C26_DuplicateUsernameConflict ==
    [][/\ UniqueUsernames'
       /\ \A s \in Slots, body \in CreateBodies,
             F \in FaultSets(CreateUserOps) :
            (UsernameTaken(body.username)
                /\ CreateUser(s, AdminHeader, body, F))
              => /\ resp'[s].status = 409
                 /\ users' = users
                 /\ passwords' = passwords]_vars

---------------------------------------------------------------------------
(* Properties of the rate limiter (checked under SpecLimiter) *)

\* The request holds a limiter that GetLimiter gave it, and the map has
\* not been cleared since.
HoldsCurrent(p) ==
    /\ calls[p].pc \in {"unlock", "allow", "done"}
    /\ calls[p].limiter # NoLimiter
    /\ calls[p].clearedAt = ""

\* At most one holder of the mutex; the map is read and written only by
\* the holder; every request that was given a limiter since the last
\* clear holds the limiter the map has for its identifier.
SingleLimiter ==
    /\ Cardinality(mu) <= 1
    /\ \A p \in Calls : calls[p].pc \in {"lookup", "create", "unlock"}
                            => p \in mu
    /\ calls[Cleaner].pc \in {"clear", "unlock"} => Cleaner \in mu
    /\ \A p \in Calls :
            HoldsCurrent(p) => limiters[calls[p].ip] = calls[p].limiter

\* C29: under every interleaving of requests and the cleaner, the map is
\* accessed under mutual exclusion and holds one limiter per identifier,
\* which is the limiter of every request of that identifier that passed
\* GetLimiter since the last clear; so an Allow of such a request takes
\* its token from the bucket the map holds.
C29_SingleLimiterPerIdentifier ==
    [][/\ SingleLimiter'
       /\ \A p \in Calls :
            (HoldsCurrent(p) /\ calls[p].pc = "allow"
                             /\ calls'[p].pc = "done"
                             /\ calls'[p].status = 200)
                => tokens'[limiters[calls[p].ip]].tokens =
                        tokens[limiters[calls[p].ip]].tokens - 1]_vars

\* Two requests of one identifier, the first for it, are past
\* GetLimiter at the same time with the same fresh limiter.
C29_Witness ==
    /\ HoldsCurrent(1) /\ HoldsCurrent(2)
    /\ calls[1].pc = "allow" /\ calls[2].pc = "allow"
    /\ calls[1].ip = calls[2].ip
    /\ calls[1].limiter = calls[2].limiter
    /\ tokens[calls[1].limiter] = NewLimiter

---------------------------------------------------------------------------
(* Properties of login and refresh (checked under SpecSession) *)

\* The step in which connection s is given a refresh request whose token
\* verifies and has not expired.
ValidRefreshArrives(s) ==
    /\ Arrives(s)
    /\ Arrived(s).endpoint = "refresh"
    /\ Arrived(s).body # NoTokenBody
    /\ ValidateToken(Arrived(s).body.token)

\* C27: a refresh with a valid refresh token answers 200 only if the user
\* its claims name is stored, and the access token of the answer carries
\* the username and role stored for that user now, whatever the claims
\* say; when the user is not stored the answer is 401 and carries no
\* token; when the user is stored and nothing fails the answer is 200.
C27_RefreshUsesLiveUser ==
    [][\A s \in Slots :
        ValidRefreshArrives(s) =>
            LET claims == Arrived(s).body.token
                user == GetUserFrom(users, claims.user_id)
            IN  /\ user = NoUser
                    => resp'[s] = MessageResp("refresh", 401, "User not found")
                /\ resp'[s].status = 200
                    => /\ user # NoUser
                       /\ resp'[s].body.token = GenerateToken(user)
                       /\ resp'[s].body.token.role = user.role
                       /\ resp'[s].body.token.username = user.username
                /\ (user # NoUser /\ RefreshToken(s, Arrived(s).body, {}))
                    => resp'[s].status = 200]_vars

\* A refresh token issued when op_east was a GateOperator was refreshed
\* after the administrator made op_east a Supervisor.
C27_Witness ==
    \E s \in Slots :
        /\ request[s].endpoint = "refresh"
        /\ request[s].body # NoTokenBody
        /\ request[s].body.token.signed
        /\ request[s].body.token.user_id = OpEast
        /\ request[s].body.token.role = RoleGateOperator
        /\ users[OpEast] # NoUser
        /\ users[OpEast].role = RoleSupervisor
        /\ resp[s].status = 200
        /\ resp[s].body.token.role = RoleSupervisor

\* The credentials of a well-formed login are wrong: no stored user has
\* the username, or the user has no stored hash, or the password does not
\* match the hash.
FailedCredentials(body) ==
    /\ body # BadBody
    /\ body.username # ""
    /\ body.password # <<>>
    /\ LET user == GetUserByUsername(body.username) IN
        \/ user = NoUser
        \/ passwords[user.user_id] = NoPassword
        \/ passwords[user.user_id].password_hash # HashPassword(body.password)

\* C28: every login with wrong credentials, whichever of the three it
\* is and whatever store operation fails, gets the same answer (401 with
\* the same body) and changes nothing in the stores.
C28_LoginFailuresIndistinguishable ==
    [][\A s \in Slots :
        (/\ Arrives(s)
         /\ Arrived(s).endpoint = "login"
         /\ FailedCredentials(Arrived(s).body))
            => /\ resp'[s] = MessageResp("login", 401,
                                         "Invalid username or password")
               /\ UNCHANGED <<users, passwords, lastLogin, issued>>]_vars

\* A login of a stored user with a wrong password was answered as a
\* login of an unknown user is.
C28_Witness ==
    \E s \in Slots :
        /\ request[s].endpoint = "login"
        /\ request[s].body = [username |-> "op_east",
                              password |-> StrongPassword]
        /\ users[OpEast] # NoUser
        /\ passwords[OpEast].password_hash = HashPassword(SeedPassword)
        /\ resp[s] = LoginResponse([username |-> "nobody",
                                    password |-> StrongPassword], {})
        /\ resp[s].status = 401

---------------------------------------------------------------------------
(* Entries are never removed                                               *)

\* An authenticated request of any route has been answered on connection s.
Served(s) ==
    /\ resp[s] # NoResp
    /\ request[s] # NoRequest
    /\ resp[s].status = 200

\* C31: no push, pull, supervisor or admin request removes a record_id from
\* the entries store: a step of any handler keeps every stored record_id
\* stored, and a push that marks an entry DELETED (the soft delete) leaves
\* the document in the store with that status.
C31_EntriesNeverRemoved ==
    [][\A r \in RecordIDSet :
          entries[r] # NoEntry => entries'[r] # NoEntry]_vars

\* An entry was stored, then marked DELETED by a later push, and admin and
\* supervisor requests have been served on the store holding it.
C31_Witness ==
    /\ \E r \in RecordIDSet :
          /\ entries[r] # NoEntry
          /\ entries[r].status = StatusDeleted
    /\ users[OpNorth] = NoUser
    /\ \E s \in Slots : Served(s) /\ request[s].endpoint = "entries"

---------------------------------------------------------------------------
(* The commit point of the admin mutations (checked under SpecAdmin)       *)

\* The store operations of the relationship repair, and of the primary
\* mutation, of the three handlers.
RepairOps == {"getsup", "updsup", "getold", "updold", "getnew", "updnew"}
PrimaryOps == {"create", "update", "delete"}

ManagedLists(us) ==
    [u \in DocIDs |->
        IF us[u] = NoUser THEN <<>> ELSE us[u].managed_operators]

\* The stores us and vs hold the same users, with the same fields but for
\* managed_operators.
SameRecords(us, vs) ==
    \A u \in DocIDs :
        IF us[u] = NoUser THEN vs[u] = NoUser
        ELSE SameButOperators(us[u], vs[u])

\* What C32 says of one request: out is what the handler did with the
\* store operations of F failing, clean what it does when none fails.
CommitPoint(s, F, out, clean) ==
    /\ (F \subseteq RepairOps) =>
            /\ resp'[s].status = clean.status
            /\ SameRecords(clean.users, users')
            /\ passwords' = clean.passwords
    /\ (F \cap PrimaryOps # {} /\ resp'[s].status = 500) =>
            ManagedLists(users') = ManagedLists(users)

\* C32: the primary mutation is the commit point of CreateUser, UpdateUser
\* and DeleteUser: when a store operation of the relationship repair fails
\* the request is answered as if it had not and the primary mutation is
\* persisted, and when the primary mutation fails (500) the request has
\* changed no managed_operators list.
C32_PrimaryMutationIsCommitPoint ==
    [][/\ \A s \in Slots, body \in CreateUserBodies,
             F \in FaultSets(CreateUserOps) :
            CreateUser(s, Bearer(AccessToken(Admin)), body, F) =>
                CommitPoint(s, F, CreateUserHandler(body, F),
                            CreateUserHandler(body, {}))
       /\ \A s \in Slots, body \in UpdateUserBodies,
             F \in FaultSets(UpdateUserOps) :
            UpdateUser(s, Bearer(AccessToken(Admin)), body, F) =>
                CommitPoint(s, F, UpdateUserHandler(body, F),
                            UpdateUserHandler(body, {}))
       /\ \A s \in Slots, body \in DeleteUserBodies,
             F \in FaultSets(DeleteUserOps) :
            DeleteUser(s, Bearer(AccessToken(Admin)), body, F) =>
                CommitPoint(s, F, DeleteUserHandler(GetUser(Admin), body, F),
                            DeleteUserHandler(GetUser(Admin), body, {}))]_vars

---------------------------------------------------------------------------
(* Order and independence within a batch (checked under SpecBatch)         *)

\* The entries of the batch of request r that the loop has accepted so far.
AcceptedSoFar(r) == {k \in 1..(r.i - 1) : r.log[k] = "accepted"}

\* The accepted entry at index k is the last accepted one so far with its
\* record id.
LastAccepted(r, k) ==
    /\ k \in AcceptedSoFar(r)
    /\ \A j \in AcceptedSoFar(r) :
            r.batch[j].record_id = r.batch[k].record_id => j <= k

\* The loop has handled exactly the first i - 1 entries of the batch, and
\* for every record id accepted so far the store holds the entry accepted
\* last.
PrefixPersisted(r) ==
    /\ Len(r.log) = r.i - 1
    /\ r.i <= Len(r.batch) + 1
    /\ \A k \in 1..(r.i - 1) :
            LastAccepted(r, k) => entries[r.batch[k].record_id] = r.batch[k]

\* C33: within one push batch the entries are handled in submission order
\* and persisted one by one: a loop step handles the next entry and changes
\* the store by that entry alone (set when accepted, nothing otherwise);
\* at every point of the request the store holds, for the record ids of
\* the accepted entries of the prefix handled so far, the entry accepted
\* last; giving up the request and ending it undo nothing.
C33_BatchInOrderNoAtomicity ==
    [][\A s \in Slots :
        /\ push'[s].pc = "loop" => PrefixPersisted(push[s])'
        /\ (push[s].pc = "loop" /\ push'[s] # push[s] /\ push'[s].pc = "loop")
             => /\ push'[s].i = push[s].i + 1
                /\ push'[s].batch = push[s].batch
                /\ entries' =
                     IF push'[s].log[push[s].i] = "accepted"
                     THEN [entries EXCEPT ![Current(s).record_id] = Current(s)]
                     ELSE entries
        /\ (push[s].pc = "loop" /\ push'[s].pc = "idle") => entries' = entries
        /\ (request[s] # request'[s] /\ push[s].pc = "loop")
             => entries' = entries /\ push' = push]_vars

\* The caller gave up a push of two accepted entries with one record id;
\* the loop has handled both and the store holds the second.
C33_Witness ==
    \E s \in Slots :
        /\ push[s].pc = "loop"
        /\ request[s] = [endpoint |-> "push", hdr |-> request[s].hdr,
                         abandoned |-> TRUE]
        /\ Len(push[s].batch) = 2
        /\ push[s].i = 3
        /\ push[s].log = <<"accepted", "accepted">>
        /\ push[s].batch[1].record_id = push[s].batch[2].record_id
        /\ push[s].batch[1] # push[s].batch[2]
        /\ entries[push[s].batch[2].record_id] = push[s].batch[2]

---------------------------------------------------------------------------
(* Which tokens the protected routes accept (checked under SpecBearer)     *)

\* C34: a request to a sync, admin or supervisor route whose Authorization
\* header carries a refresh token that a login issued is answered 401.
C34_RefreshTokenRejected ==
    [][\A s \in Slots :
        (/\ Arrives(s)
         /\ Arrived(s).endpoint \in
                SyncRoutes \cup AdminRoutes \cup SupervisorRoutes
         /\ Arrived(s).hdr.kind = "bearer"
         /\ Arrived(s).hdr.token \in issued)
            => resp'[s].status = 401]_vars

---------------------------------------------------------------------------
(* Authorization against the stored record (checked under SpecLive)        *)

\* The record stored, when the request arrives, for the user its token
\* names.
StoredCaller(s) == users[Arrived(s).hdr.token.user_id]

\* C35: a request bearing a valid token is decided by the record stored for
\* the token's user when the request arrives: 401 when no record is stored,
\* 403 on an admin route unless the stored role is Admin, 403 on the
\* supervisor's entries route unless the stored role is Supervisor or
\* Admin, the entries of the stored managed_operators on that route, and a
\* push whose entries are checked against the stored allowed_checkpoints.
C35_AuthorizedAgainstStoredRecord ==
    [][\A s \in Slots :
        /\ (/\ Arrives(s)
            /\ Arrived(s).hdr.kind = "bearer"
            /\ ValidateToken(Arrived(s).hdr.token))
            => IF StoredCaller(s) = NoUser THEN Refused(s, 401)
               ELSE
                /\ Arrived(s).endpoint \in AdminRoutes =>
                     IF StoredCaller(s).role = RoleAdmin
                     THEN resp'[s].status \notin {401, 403}
                     ELSE Refused(s, 403)
                /\ Arrived(s).endpoint = "entries" =>
                     IF StoredCaller(s).role \in SupervisorOrAdmin
                     THEN /\ resp'[s].status = 200
                          /\ resp'[s].entries =
                                filterEntriesByRole(GetAllEntries,
                                                    StoredCaller(s))
                     ELSE Refused(s, 403)
                /\ Arrived(s).endpoint = "pull" =>
                     /\ resp'[s].status = 200
                     /\ resp'[s].user = StoredCaller(s)
                /\ Arrived(s).endpoint = "push" =>
                     /\ push'[s].pc = "loop"
                     /\ push'[s].user = StoredCaller(s)
        /\ (/\ LoopStep(s)
            /\ push[s].user.role = RoleGateOperator
            /\ ~HasAccess(push[s].user, Current(s)))
            => Rejects(s)]_vars

\* The operator's push of an entry was accepted; the administrator then
\* took the checkpoint away and was demoted; the operator's next push of
\* the entry, with the same token, is rejected.
C35_Witness ==
    \E s \in Slots :
        /\ request[s] = Request("push", Bearer(AccessToken(OpEast)))
        /\ push[s].pc = "loop"
        /\ push[s].log = <<"wrong_checkpoint">>
        /\ entries[RecordIDs[1]] = LiveBatch[1]
        /\ users[Admin].role = RoleSupervisor

---------------------------------------------------------------------------
(* What a push leaves alone (checked under Spec)                           *)

\* C36: a step of the push loop of requester A leaves every stored entry
\* whose logging_user_id is not A's user_id as it is, whatever record_id
\* the pushed entry carries.
C36_PushKeepsForeignEntries ==
    [][\A s \in Slots :
        LoopStep(s) =>
            \A r \in RecordIDSet :
                (/\ entries[r] # NoEntry
                 /\ entries[r].logging_user_id # push[s].user.user_id)
                    => entries'[r] = entries[r]]_vars

---------------------------------------------------------------------------
(* UpdateUser without supervisor_id (checked under SpecAdmin)              *)

\* The body names a stored user and carries no supervisor_id.
OmitsSupervisor(body) ==
    /\ body # BadBody
    /\ body.user_id \in Existing
    /\ body.supervisor_id = ""

\* C37: an UpdateUser request without supervisor_id, none of whose store
\* operations fails, leaves the target's supervisor_id and every user's
\* managed_operators as they were.
C37_UpdateKeepsRelationship ==
    [][\A s \in Slots, body \in UpdateUserBodies :
        (/\ OmitsSupervisor(body)
         /\ UpdateUser(s, Bearer(AccessToken(Admin)), body, {}))
            => /\ users'[body.user_id].supervisor_id =
                        users[body.user_id].supervisor_id
               /\ ManagedLists(users') = ManagedLists(users)]_vars

---------------------------------------------------------------------------
(* Requests served at the same time (checked under SpecRace)               *)

\* The request of route kind on connection s has been answered with the
\* status and the answer is still on the connection.
Completed(s, kind, status) ==
    /\ request[s] # NoRequest
    /\ request[s].endpoint = kind
    /\ inflight[s].pc = "idle"
    /\ resp[s] # NoResp
    /\ resp[s].status = status

\* The completed request on s puts operator op into supervisor sup's
\* managed_operators; it takes operator op out of its supervisor's list.
AddsOperator(s, sup, op) ==
    \/ /\ Completed(s, "create_user", 200)
       /\ request[s].body.role = RoleGateOperator
       /\ request[s].body.supervisor_id = sup
       /\ op = "user-" \o request[s].body.username
    \/ /\ Completed(s, "update_user", 200)
       /\ request[s].body.supervisor_id = sup
       /\ op = request[s].body.user_id

RemovesOperator(s, op) ==
    /\ Completed(s, "delete_user", 200)
    /\ op = request[s].body.user_id

\* The change of the completed request on s that concerns operator op is
\* in the store.
Reflected(s, op) ==
    /\ \A sup \in Existing :
            AddsOperator(s, sup, op) => Manages(sup, op)
    /\ RemovesOperator(s, op) => \A sup \in Existing : ~Manages(sup, op)

\* C38: when two admin requests that add or remove different operators in
\* a supervisor's managed_operators have both completed, the list reflects
\* both changes.
C38_NoLostRelationshipUpdate ==
    \A s, t \in Slots, op, oq \in DocIDs :
        (/\ s # t
         /\ op # oq
         /\ RemovesOperator(s, op) \/ \E sup \in Existing :
                                        AddsOperator(s, sup, op)
         /\ RemovesOperator(t, oq) \/ \E sup \in Existing :
                                        AddsOperator(t, sup, oq))
            => Reflected(s, op) /\ Reflected(t, oq)

\* C39: when a login of a user and an admin request that changes the
\* user's allowed_checkpoints have both completed, the stored record has
\* the checkpoints the admin request set.
C39_LoginKeepsAdminChange ==
    \A s, t \in Slots :
        (/\ s # t
         /\ Completed(s, "login", 200)
         /\ Completed(t, "update_user", 200)
         /\ request[t].body.user_id = resp[s].body.user.user_id
         /\ ~request[t].body.allowed_checkpoints.nil)
            => users[request[t].body.user_id].allowed_checkpoints =
                    request[t].body.allowed_checkpoints.list

\* The user and the credential stored for the username of body are the
\* ones that body asked for.
StoredFrom(body) ==
    LET userID == "user-" \o body.username IN
    /\ users[userID] # NoUser
    /\ users[userID].role = body.role
    /\ passwords[userID] # NoPassword
    /\ passwords[userID].password_hash = HashPassword(body.password)

\* C40: when two CreateUser requests for one username have both completed,
\* at most one was answered 200, the other was answered 409, and the
\* stored user and credential are those of the request answered 200.
C40_OneCreatePerUsername ==
    \A s, t \in Slots :
        (/\ s # t
         /\ \E st \in {200, 409} : Completed(s, "create_user", st)
         /\ \E st \in {200, 409} : Completed(t, "create_user", st)
         /\ request[s].body.username = request[t].body.username)
            => /\ ~(resp[s].status = 200 /\ resp[t].status = 200)
               /\ resp[s].status = 200 => StoredFrom(request[s].body)

====
